---- MODULE Spec2Model ----
(***************************************************************************)
(* Interpolation and lookup engine of piper-super: the two CubicSpline     *)
(* classes, the cruise-row lookup (cruiseLookup / interp1 /                *)
(* interpolateInRow over the Warrior III table) and the bicubic climb      *)
(* lookup (calculateClimb over realClimbFigures).                          *)
(*                                                                         *)
(* JavaScript numbers are modelled as exact rationals <<num, den>> in      *)
(* lowest terms with den > 0; Math.round is floor(x + 1/2).                *)
(***************************************************************************)
EXTENDS Integers, Sequences, FiniteSets, TLC

VARIABLES
  spline,   \* the CubicSpline object built by `new CubicSpline(xs, ys)`, or NoSpline
  call,     \* the last call made: its name and its arguments
  ret       \* what that call produced: a value or the error it threw

vars == <<spline, call, ret>>

(* ------------------------------------------------------------------ *)
(* Exact rational arithmetic standing for JavaScript number arithmetic *)
(* ------------------------------------------------------------------ *)

Abs(n) == IF n < 0 THEN -n ELSE n

RECURSIVE GCD(_, _)
GCD(a, b) == IF b = 0 THEN a ELSE GCD(b, a % b)

Norm(n, d) ==
  LET s == IF d < 0 THEN -1 ELSE 1
      g == GCD(Abs(n), Abs(d))
  IN  <<(s * n) \div g, (s * d) \div g>>

R(k) == <<k, 1>>

RAdd(p, q) ==
  LET g == GCD(p[2], q[2])
  IN  Norm(p[1] * (q[2] \div g) + q[1] * (p[2] \div g), p[2] * (q[2] \div g))

RNeg(p) == <<-p[1], p[2]>>

RSub(p, q) == RAdd(p, RNeg(q))

RMul(p, q) ==
  LET g1 == GCD(Abs(p[1]), q[2])
      g2 == GCD(Abs(q[1]), p[2])
  IN  Norm((p[1] \div g1) * (q[1] \div g2), (p[2] \div g2) * (q[2] \div g1))

\* p / q for q # 0 (every division of the modelled code has a non-zero divisor
\* on the inputs drawn here: strictly increasing knots and table axes)
RDiv(p, q) == RMul(p, Norm(q[2], q[1]))

RLt(p, q) == p[1] * q[2] < q[1] * p[2]
RLe(p, q) == p[1] * q[2] <= q[1] * p[2]
RGe(p, q) == RLe(q, p)
RGt(p, q) == RLt(q, p)

RIsInt(p) == p[2] = 1

\* floor of a rational (\div rounds towards minus infinity for a positive divisor)
RFloor(p) == p[1] \div p[2]

\* Math.round: nearest integer, ties towards +Infinity
MathRound(p) == RFloor(RAdd(p, <<1, 2>>))

(* ------------------------------------------------------------------ *)
(* CubicSpline: both classes share the constructor's arithmetic        *)
(* ------------------------------------------------------------------ *)

NoSpline == [cls |-> "none"]

\* ConstructorThrows with the length check off by one (n < 1 for n < 2)
ConstructorThrowsShort(xs, ys) ==
  LET n == Len(xs)
  IN  IF n < 1 \/ n # Len(ys)
        THEN "x and y arrays must have the same length >= 2"
      ELSE IF \E i \in 0 .. n - 2 : RLe(RSub(xs[i + 2], xs[i + 1]), R(0))
        THEN "x array must be strictly increasing"
      ELSE ""

\* the constructor's two validations, in order; "" when it does not throw
ConstructorThrows(xs, ys) ==
  LET n == Len(xs)
  IN  IF n < 2 \/ n # Len(ys)
        THEN "x and y arrays must have the same length >= 2"
      ELSE IF \E i \in 0 .. n - 2 : RLe(RSub(xs[i + 2], xs[i + 1]), R(0))
        THEN "x array must be strictly increasing"
      ELSE ""

\* the forward sweep of the tridiagonal solve: acc holds the l, mu and z of
\* the source indices 0 .. Len(acc) - 1, and the entry of index Len(acc) is added
RECURSIVE ForwardSweep(_, _, _, _)
ForwardSweep(xs, h, alpha, acc) ==
  LET n == Len(xs)
      i == Len(acc)
  IN  IF i = n THEN acc
      ELSE IF i = 0 \/ i = n - 1
        THEN ForwardSweep(xs, h, alpha,
                          Append(acc, [l |-> R(1), mu |-> R(0), z |-> R(0)]))
      ELSE LET p == acc[i]
               li == RSub(RMul(R(2), RSub(xs[i + 2], xs[i])), RMul(h[i - 1], p.mu))
           IN  ForwardSweep(xs, h, alpha,
                            Append(acc, [l |-> li,
                                         mu |-> RDiv(h[i], li),
                                         z |-> RDiv(RSub(alpha[i], RMul(h[i - 1], p.z)),
                                                    li)]))

\* the back substitution: acc holds the c of the source indices j + 1 .. n - 1
RECURSIVE BackSubstitute(_, _, _)
BackSubstitute(lmz, n, acc) ==
  LET j == n - 1 - Len(acc)
  IN  IF j < 0 THEN acc
      ELSE IF j = n - 1 THEN BackSubstitute(lmz, n, <<R(0)>>)
      ELSE BackSubstitute(lmz, n,
             <<RSub(lmz[j + 1].z, RMul(lmz[j + 1].mu, acc[1]))>> \o acc)

\* SplineSegs with d = (c[j+1] - c[j]) / (2 h[j])
SplineSegsHalvedD(xs, ys) ==
  LET n == Len(xs)
      X(i) == xs[i + 1]
      Y(i) == ys[i + 1]
      h == [i \in 0 .. n - 2 |-> RSub(X(i + 1), X(i))]
      alpha == [i \in 0 .. n - 2 |->
                  IF i >= 1
                    THEN RSub(RMul(RDiv(R(3), h[i]), RSub(Y(i + 1), Y(i))),
                              RMul(RDiv(R(3), h[i - 1]), RSub(Y(i), Y(i - 1))))
                    ELSE R(0)]
      lmz == ForwardSweep(xs, h, alpha, <<>>)
      cs == BackSubstitute(lmz, n, <<>>)
      c(j) == cs[j + 1]
      b == [j \in 0 .. n - 2 |->
              RSub(RDiv(RSub(Y(j + 1), Y(j)), h[j]),
                   RDiv(RMul(h[j], RAdd(c(j + 1), RMul(R(2), c(j)))), R(3)))]
      d == [j \in 0 .. n - 2 |->
              RDiv(RSub(c(j + 1), c(j)), RMul(R(2), h[j]))]
  IN  [i \in 0 .. n - 2 |->
         [x0 |-> X(i), a |-> Y(i), b |-> b[i], c |-> c(i), d |-> d[i]]]

\* the per-segment coefficients the constructor stores (the 0-based indices
\* of the source are kept for h, alpha, b, d and segs; lmz[i + 1] and cs[j + 1]
\* are the source's l[i], mu[i], z[i] and c[j])
SplineSegs(xs, ys) ==
  LET n == Len(xs)
      X(i) == xs[i + 1]
      Y(i) == ys[i + 1]
      h == [i \in 0 .. n - 2 |-> RSub(X(i + 1), X(i))]
      alpha == [i \in 0 .. n - 2 |->
                  IF i >= 1
                    THEN RSub(RMul(RDiv(R(3), h[i]), RSub(Y(i + 1), Y(i))),
                              RMul(RDiv(R(3), h[i - 1]), RSub(Y(i), Y(i - 1))))
                    ELSE R(0)]
      lmz == ForwardSweep(xs, h, alpha, <<>>)
      cs == BackSubstitute(lmz, n, <<>>)
      c(j) == cs[j + 1]
      b == [j \in 0 .. n - 2 |->
              RSub(RDiv(RSub(Y(j + 1), Y(j)), h[j]),
                   RDiv(RMul(h[j], RAdd(c(j + 1), RMul(R(2), c(j)))), R(3)))]
      d == [j \in 0 .. n - 2 |->
              RDiv(RSub(c(j + 1), c(j)), RMul(R(3), h[j]))]
  IN  [i \in 0 .. n - 2 |->
         [x0 |-> X(i), a |-> Y(i), b |-> b[i], c |-> c(i), d |-> d[i]]]

\* `new CubicSpline(xs, ys)` of class cls: the object, or NoSpline when it throws
NewCubicSpline(cls, xs, ys) ==
  IF ConstructorThrows(xs, ys) # "" THEN NoSpline
  ELSE IF cls = "binary"
    THEN [cls |-> "binary", nsegs |-> Len(xs) - 1, segs |-> SplineSegs(xs, ys)]
    ELSE [cls |-> "linear", nsegs |-> Len(xs) - 1, segs |-> SplineSegs(xs, ys),
          xFirst |-> xs[1], xLast |-> xs[Len(xs)]]

\* the while loop of the binary-search findSegment
RECURSIVE BinaryLoop(_, _, _, _)
BinaryLoop(s, lo, hi, x) ==
  IF lo > hi THEN [tag |-> "Error", msg |-> "segment search failed"]
  ELSE LET mid == (lo + hi) \div 2
       IN  IF RLt(x, s.segs[mid].x0) THEN BinaryLoop(s, lo, mid - 1, x)
           ELSE IF mid + 1 > s.nsegs - 1
             THEN [tag |-> "TypeError", msg |-> "segs[mid + 1] is undefined"]
           ELSE IF RGe(x, s.segs[mid + 1].x0) THEN BinaryLoop(s, mid + 1, hi, x)
           ELSE [tag |-> "seg", i |-> mid]

\* findSegment of the binary-search class
FindSegmentBinary(s, x) ==
  LET hi == s.nsegs - 1
  IN  IF RLt(x, s.segs[0].x0) \/ RGt(x, s.segs[hi].x0)
        THEN [tag |-> "RangeError", msg |-> "x is outside the interpolation range"]
      ELSE IF x = s.segs[hi].x0 THEN [tag |-> "seg", i |-> hi]
      ELSE BinaryLoop(s, 0, hi, x)

\* the for loop of the linear-scan findSegment, from the right
RECURSIVE LinearLoop(_, _, _)
LinearLoop(s, i, x) ==
  IF i < 0 THEN [tag |-> "Error", msg |-> "segment search failed"]
  ELSE IF RGe(x, s.segs[i].x0) THEN [tag |-> "seg", i |-> i]
  ELSE LinearLoop(s, i - 1, x)

\* FindSegmentLinear without the test against xLast
FindSegmentLinearNoUpper(s, x) ==
  IF RLt(x, s.xFirst)
    THEN [tag |-> "RangeError", msg |-> "x is outside the interpolation range"]
  ELSE IF x = s.xLast THEN [tag |-> "seg", i |-> s.nsegs - 1]
  ELSE LinearLoop(s, s.nsegs - 1, x)

\* findSegment of the linear-scan class
FindSegmentLinear(s, x) ==
  IF RLt(x, s.xFirst) \/ RGt(x, s.xLast)
    THEN [tag |-> "RangeError", msg |-> "x is outside the interpolation range"]
  ELSE IF x = s.xLast THEN [tag |-> "seg", i |-> s.nsegs - 1]
  ELSE LinearLoop(s, s.nsegs - 1, x)

FindSegment(s, x) ==
  IF s.cls = "binary" THEN FindSegmentBinary(s, x) ELSE FindSegmentLinear(s, x)

\* the cubic of segment seg at x
SegValue(seg, x) ==
  LET dx == RSub(x, seg.x0)
  IN  RAdd(RAdd(RAdd(seg.a, RMul(seg.b, dx)), RMul(RMul(seg.c, dx), dx)),
           RMul(RMul(RMul(seg.d, dx), dx), dx))

\* eval(x): the value, or the error findSegment threw
SplineEval(s, x) ==
  LET f == FindSegment(s, x)
  IN  IF f.tag = "seg"
        THEN [tag |-> "ok", seg |-> f.i, val |-> SegValue(s.segs[f.i], x)]
        ELSE f

(* ------------------------------------------------------------------ *)
(* The spline program: one construction, then evaluations              *)
(* ------------------------------------------------------------------ *)

MaxKnots == 5          \* longest knot sequence handed to the constructor
Steps == {0, 1, 2}     \* xs[i+1] - xs[i] of the inputs (0: not increasing)
YVals == {0, 1}        \* the ys of the inputs

RECURSIVE XsFrom(_, _)
\* the knot sequences of length n > 0 that start with the sequence pre
XsFrom(pre, n) ==
  IF Len(pre) = n THEN {pre}
  ELSE UNION {XsFrom(Append(pre, R(pre[Len(pre)][1] + st)), n) : st \in Steps}

XsInputs == {<<>>} \cup UNION {XsFrom(<<R(0)>>, n) : n \in 1 .. MaxKnots}

YsInputs ==
  UNION {[1 .. n -> {R(y) : y \in YVals}] : n \in 0 .. MaxKnots}

\* the abscissas asked for: every half from -1 to one past the largest knot
XQueries == {Norm(k, 2) : k \in -2 .. 4 * (MaxKnots - 1) + 2}

InitSpline ==
  \E cls \in {"binary", "linear"}, xs \in XsInputs, ys \in YsInputs :
    /\ spline = NewCubicSpline(cls, xs, ys)
    /\ call = [op |-> "new", cls |-> cls, xs |-> xs, ys |-> ys]
    /\ ret = LET e == ConstructorThrows(xs, ys)
             IN  IF e = "" THEN [tag |-> "ok"] ELSE [tag |-> "Error", msg |-> e]

\* spline.eval(x) on the constructed object; the knots are kept in call.
\* eval leaves the object as it is, so a behaviour makes one evaluation: a
\* second one would start from the same object and reach nothing new.
Eval(x) ==
  /\ spline # NoSpline
  /\ call.op = "new"
  /\ call' = [op |-> "eval", cls |-> spline.cls, xs |-> call.xs, ys |-> call.ys,
              x |-> x]
  /\ ret' = SplineEval(spline, x)
  /\ UNCHANGED spline

NextSpline == \E x \in XQueries : Eval(x)

SpecSpline == InitSpline /\ [][NextSpline]_vars

(* ------------------------------------------------------------------ *)
(* Two-stage cruise-row lookup                                         *)
(* ------------------------------------------------------------------ *)

\* the for loop of interp1 from index i (0-based, as in the source)
RECURSIVE Interp1Loop(_, _, _, _)
Interp1Loop(xs, ys, v, i) ==
  IF i >= Len(xs) - 1
    THEN [tag |-> "Error", msg |-> "interp1: value not bracketed"]
  ELSE IF RGe(v, xs[i + 1]) /\ RLe(v, xs[i + 2])
    THEN LET t == RDiv(RSub(v, xs[i + 1]), RSub(xs[i + 2], xs[i + 1]))
         IN  [tag |-> "ok",
              val |-> RAdd(ys[i + 1], RMul(t, RSub(ys[i + 2], ys[i + 1])))]
  ELSE Interp1Loop(xs, ys, v, i + 1)

\* interp1 continuing the first segment's line below xs[0]
interp1Extrapolate(xs, ys, v) ==
  IF RLe(v, xs[1])
    THEN IF Len(xs) = 1 THEN [tag |-> "ok", val |-> ys[1]]
         ELSE LET t == RDiv(RSub(v, xs[1]), RSub(xs[2], xs[1]))
              IN  [tag |-> "ok",
                   val |-> RAdd(ys[1], RMul(t, RSub(ys[2], ys[1])))]
  ELSE IF RGe(v, xs[Len(xs)]) THEN [tag |-> "ok", val |-> ys[Len(ys)]]
  ELSE Interp1Loop(xs, ys, v, 0)

interp1(xs, ys, v) ==
  IF RLe(v, xs[1]) THEN [tag |-> "ok", val |-> ys[1]]
  ELSE IF RGe(v, xs[Len(xs)]) THEN [tag |-> "ok", val |-> ys[Len(ys)]]
  ELSE Interp1Loop(xs, ys, v, 0)

\* lerp with the weight applied from b towards a
lerpFromHigh(a, b, w) == RAdd(b, RMul(w, RSub(a, b)))

lerp(a, b, w) == RAdd(a, RMul(w, RSub(b, a)))

\* interpolateInRow with the TAS line started from tasHi instead of tasLo
interpolateInRowFromHi(row, isaDevC) ==
  LET rpmVal == interp1(row.isa, row.rpm, isaDevC)
      isaLo == row.isa[1]
      isaHi == row.isa[Len(row.isa)]
      tasVal == IF isaLo = isaHi THEN row.tasLo
                ELSE LET t == RDiv(RSub(isaDevC, isaLo), RSub(isaHi, isaLo))
                     IN  RAdd(row.tasHi, RMul(t, RSub(row.tasHi, row.tasLo)))
  IN  IF rpmVal.tag # "ok" THEN rpmVal
      ELSE [tag |-> "ok", rpm |-> rpmVal.val, tas |-> tasVal]

\* interpolateInRow with the TAS fraction clamped to [0, 1]
interpolateInRowClampedTas(row, isaDevC) ==
  LET rpmVal == interp1(row.isa, row.rpm, isaDevC)
      isaLo == row.isa[1]
      isaHi == row.isa[Len(row.isa)]
      tasVal == IF isaLo = isaHi THEN row.tasLo
                ELSE IF RLe(isaDevC, isaLo) THEN row.tasLo
                ELSE IF RGe(isaDevC, isaHi) THEN row.tasHi
                ELSE LET t == RDiv(RSub(isaDevC, isaLo), RSub(isaHi, isaLo))
                     IN  RAdd(row.tasLo, RMul(t, RSub(row.tasHi, row.tasLo)))
  IN  IF rpmVal.tag # "ok" THEN rpmVal
      ELSE [tag |-> "ok", rpm |-> rpmVal.val, tas |-> tasVal]

interpolateInRow(row, isaDevC) ==
  LET rpmVal == interp1(row.isa, row.rpm, isaDevC)
      isaLo == row.isa[1]
      isaHi == row.isa[Len(row.isa)]
      tasVal == IF isaLo = isaHi THEN row.tasLo
                ELSE LET t == RDiv(RSub(isaDevC, isaLo), RSub(isaHi, isaLo))
                     IN  RAdd(row.tasLo, RMul(t, RSub(row.tasHi, row.tasLo)))
  IN  IF rpmVal.tag # "ok" THEN rpmVal
      ELSE [tag |-> "ok", rpm |-> rpmVal.val, tas |-> tasVal]

\* the bracket loop of cruiseLookup: the first i with rows[i].pa <= paFt <=
\* rows[i+1].pa, and iLow's initial 0 when the loop ends without a match
RECURSIVE FindILow(_, _, _)
FindILow(rows, paFt, i) ==
  IF i >= Len(rows) - 1 THEN 0
  ELSE IF RGe(paFt, rows[i + 1].pa) /\ RLe(paFt, rows[i + 2].pa) THEN i
  ELSE FindILow(rows, paFt, i + 1)

\* steps 1 to 3 of cruiseLookup between the edges: bracket paFt, interpolate
\* in the two rows, blend and round
BlendRows(paFt, isaDevC, rows) ==
  LET iLow == FindILow(rows, paFt, 0)
      low == rows[iLow + 1]
      high == rows[iLow + 2]
      L == interpolateInRow(low, isaDevC)
      H == interpolateInRow(high, isaDevC)
      w == RDiv(RSub(paFt, low.pa), RSub(high.pa, low.pa))
  IN  IF L.tag # "ok" THEN L
      ELSE IF H.tag # "ok" THEN H
      ELSE [tag |-> "ok",
            rpm |-> R(MathRound(RDiv(lerp(L.rpm, H.rpm, w), R(10))) * 10),
            tas |-> R(MathRound(lerp(L.tas, H.tas, w)))]

\* cruiseLookup answering from the row before the last at the top edge
cruiseLookupTopFromPrev(paFt, isaDevC, rows) ==
  IF RLe(paFt, rows[1].pa) THEN interpolateInRow(rows[1], isaDevC)
  ELSE IF RGe(paFt, rows[Len(rows)].pa)
    THEN interpolateInRow(rows[Len(rows) - 1], isaDevC)
  ELSE BlendRows(paFt, isaDevC, rows)

\* cruiseLookup without the early return below the first row
cruiseLookupNoLowClamp(paFt, isaDevC, rows) ==
  IF RGe(paFt, rows[Len(rows)].pa)
    THEN interpolateInRow(rows[Len(rows)], isaDevC)
  ELSE BlendRows(paFt, isaDevC, rows)

cruiseLookup(paFt, isaDevC, rows) ==
  IF RLe(paFt, rows[1].pa) THEN interpolateInRow(rows[1], isaDevC)
  ELSE IF RGe(paFt, rows[Len(rows)].pa)
    THEN interpolateInRow(rows[Len(rows)], isaDevC)
  ELSE BlendRows(paFt, isaDevC, rows)

Ints(s) == [i \in 1 .. Len(s) |-> R(s[i])]

\* the embedded Warrior III cruise table
cruiseRows == <<
  [pa |-> R(0), isa |-> Ints(<<-15, 0, 10, 20, 30>>),
   rpm |-> Ints(<<2340, 2390, 2420, 2440, 2470>>), tasLo |-> R(100), tasHi |-> R(106)],
  [pa |-> R(2000), isa |-> Ints(<<-15, 0, 10, 20, 30>>),
   rpm |-> Ints(<<2390, 2440, 2460, 2490, 2520>>), tasLo |-> R(103), tasHi |-> R(108)],
  [pa |-> R(4000), isa |-> Ints(<<-15, 0, 10, 20, 30>>),
   rpm |-> Ints(<<2440, 2480, 2510, 2540, 2560>>), tasLo |-> R(105), tasHi |-> R(111)],
  [pa |-> R(6000), isa |-> Ints(<<-15, 0, 10, 20, 30>>),
   rpm |-> Ints(<<2490, 2530, 2560, 2580, 2600>>), tasLo |-> R(107), tasHi |-> R(113)],
  [pa |-> R(8000), isa |-> <<R(-15), R(0), R(10), <<35, 2>> >>,
   rpm |-> Ints(<<2530, 2580, 2610, 2630>>), tasLo |-> R(109), tasHi |-> R(114)],
  [pa |-> R(9000), isa |-> <<R(-15), R(0), <<17, 2>> >>,
   rpm |-> Ints(<<2560, 2600, 2630>>), tasLo |-> R(110), tasHi |-> R(114)],
  [pa |-> R(10000), isa |-> Ints(<<-15>>),
   rpm |-> Ints(<<2580>>), tasLo |-> R(112), tasHi |-> R(112)] >>

\* getWarrior3Cruise over the table without its 10000 ft row
getWarrior3CruiseNoTopRow(paFt, isaDevC) ==
  cruiseLookup(paFt, isaDevC, SubSeq(cruiseRows, 1, Len(cruiseRows) - 1))

getWarrior3Cruise(paFt, isaDevC) == cruiseLookup(paFt, isaDevC, cruiseRows)

MaxPaSteps == 43       \* altitudes asked for: 250 ft steps from -500 ft up to
                       \* MaxPaSteps * 250 ft (above the top row)
MaxIsaDev == 35        \* ISA deviations asked for: -MaxIsaDev .. MaxIsaDev

PaQueries == {R(k * 250) : k \in -2 .. MaxPaSteps}
IsaQueries == {R(k) : k \in -MaxIsaDev .. MaxIsaDev}

\* the queries are drawn here: a cruise lookup, or the in-row interpolation
\* of one table row; the actions answer the query drawn
InitCruise ==
  /\ spline = NoSpline
  /\ ret = [tag |-> "pending"]
  /\ \/ \E paFt \in PaQueries, isaDevC \in IsaQueries :
          call = [op |-> "getWarrior3Cruise",
                  paFt |-> paFt, isaDevC |-> isaDevC]
     \/ \E k \in 1 .. Len(cruiseRows), isaDevC \in IsaQueries :
          call = [op |-> "interpolateInRow", row |-> k, isaDevC |-> isaDevC]

Warrior3Cruise ==
  /\ call.op = "getWarrior3Cruise"
  /\ ret.tag = "pending"
  /\ ret' = getWarrior3Cruise(call.paFt, call.isaDevC)
  /\ UNCHANGED <<spline, call>>

InRow ==
  /\ call.op = "interpolateInRow"
  /\ ret.tag = "pending"
  /\ ret' = interpolateInRow(cruiseRows[call.row], call.isaDevC)
  /\ UNCHANGED <<spline, call>>

NextCruise == Warrior3Cruise \/ InRow

SpecCruise == InitCruise /\ [][NextCruise]_vars

(* ------------------------------------------------------------------ *)
(* Bicubic climb lookup                                                *)
(* ------------------------------------------------------------------ *)

\* the embedded climb table: <<isaTempDeviation, altHundreds, minutes, fuelGal>>,
\* fuelGal in tenths of a gallon here and divided by 10 in mapClimbFigure
realClimbFigures == <<
  <<-15, 10, 2, 12>>, <<-15, 20, 3, 16>>, <<-15, 30, 5, 20>>, <<-15, 40, 6, 22>>,
  <<-15, 50, 8, 26>>, <<-15, 60, 10, 31>>, <<-15, 70, 13, 36>>, <<-15, 80, 16, 41>>,
  <<-15, 90, 19, 49>>, <<-15, 100, 23, 56>>, <<-15, 110, 28, 65>>, <<-15, 120, 33, 78>>,
  <<0, 10, 2, 13>>, <<0, 20, 3, 17>>, <<0, 30, 5, 20>>, <<0, 40, 7, 24>>,
  <<0, 50, 10, 30>>, <<0, 60, 13, 36>>, <<0, 70, 16, 42>>, <<0, 80, 20, 50>>,
  <<0, 90, 24, 59>>, <<0, 100, 32, 70>>, <<0, 110, 38, 85>>, <<0, 120, 50, 110>>,
  <<15, 10, 2, 14>>, <<15, 20, 4, 18>>, <<15, 30, 6, 22>>, <<15, 40, 8, 28>>,
  <<15, 50, 12, 34>>, <<15, 60, 15, 41>>, <<15, 70, 20, 50>>, <<15, 80, 25, 60>>,
  <<15, 90, 32, 75>>, <<15, 100, 44, 97>>,
  <<30, 10, 2, 15>>, <<30, 20, 5, 20>>, <<30, 30, 8, 24>>, <<30, 40, 11, 31>>,
  <<30, 50, 15, 40>>, <<30, 60, 20, 50>>, <<30, 70, 26, 62>>, <<30, 80, 35, 80>>,
  <<30, 90, 55, 118>> >>

mapClimbFigure(f) ==
  [x |-> R(f[1]), y |-> R(f[2]), z1 |-> R(f[3]), z2 |-> Norm(f[4], 10)]

mappedClimbFigures ==
  [i \in 1 .. Len(realClimbFigures) |-> mapClimbFigure(realClimbFigures[i])]

IsaRowOf(isa) == SelectSeq(mappedClimbFigures, LAMBDA p : p.x = R(isa))

climbGrid == <<IsaRowOf(-15), IsaRowOf(0), IsaRowOf(15), IsaRowOf(30)>>

\* cubicWeights with 2 for the 2.5 of the second weight
cubicWeightsTypo(t) ==
  LET t2 == RMul(t, t)
      t3 == RMul(t2, t)
      half == <<1, 2>>
  IN  << RSub(RAdd(RMul(RNeg(half), t3), t2), RMul(half, t)),
         RAdd(RSub(RMul(<<3, 2>>, t3), RMul(R(2), t2)), R(1)),
         RAdd(RAdd(RMul(<<-3, 2>>, t3), RMul(R(2), t2)), RMul(half, t)),
         RSub(RMul(half, t3), RMul(half, t2)) >>

cubicWeights(t) ==
  LET t2 == RMul(t, t)
      t3 == RMul(t2, t)
      half == <<1, 2>>
  IN  << RSub(RAdd(RMul(RNeg(half), t3), t2), RMul(half, t)),
         RAdd(RSub(RMul(<<3, 2>>, t3), RMul(<<5, 2>>, t2)), R(1)),
         RAdd(RAdd(RMul(<<-3, 2>>, t3), RMul(R(2), t2)), RMul(half, t)),
         RSub(RMul(half, t3), RMul(half, t2)) >>

Undefined == "undefined"

\* value ?? 0
OrZero(v) == IF v = Undefined THEN R(0) ELSE v

\* p.reduce((sum, value, index) => sum + (value ?? 0) * weights[index], 0)
interpolate1D(p, weights) ==
  RAdd(RAdd(RAdd(RAdd(R(0), RMul(OrZero(p[1]), weights[1])),
                 RMul(OrZero(p[2]), weights[2])),
            RMul(OrZero(p[3]), weights[3])),
       RMul(OrZero(p[4]), weights[4]))

\* the for loop of locate from index i (0-based)
RECURSIVE LocateLoop(_, _, _)
LocateLoop(value, points, i) ==
  IF i >= Len(points) - 1 THEN [tag |-> "Error", msg |-> "Value out of bounds."]
  ELSE IF RGe(value, points[i + 1]) /\ RLe(value, points[i + 2])
    THEN [tag |-> "ok", index |-> i,
          factor |-> RDiv(RSub(value, points[i + 1]),
                          RSub(points[i + 2], points[i + 1]))]
  ELSE LocateLoop(value, points, i + 1)

\* locate that clamps the value into the axis instead of throwing
locateClamped(value, points) ==
  IF RLt(value, points[1]) THEN LocateLoop(points[1], points, 0)
  ELSE IF RGt(value, points[Len(points)]) THEN LocateLoop(points[Len(points)], points, 0)
  ELSE LocateLoop(value, points, 0)

locate(value, points) == LocateLoop(value, points, 0)

Max2(a, b) == IF a > b THEN a ELSE b
Min2(a, b) == IF a < b THEN a ELSE b

\* row[k]?.z1 or row[k]?.z2 (field f) for a 0-based k: undefined past the row's end
CellAt(row, k, f) == IF k >= 0 /\ k < Len(row) THEN row[k + 1][f] ELSE Undefined

\* the four cells gathered from one row for field f
RowCells(row, yIndex, f) ==
  << CellAt(row, Max2(0, yIndex - 1), f),
     CellAt(row, yIndex, f),
     CellAt(row, Min2(yIndex + 1, Len(row) - 1), f),
     CellAt(row, Min2(yIndex + 2, Len(row) - 1), f) >>

bicubicInterpolate(grid, x, y) ==
  LET xPoints == [r \in 1 .. Len(grid) |-> grid[r][1].x]
      yPoints == [k \in 1 .. Len(grid[1]) |-> grid[1][k].y]
      lx == locate(x, xPoints)
      ly == locate(y, yPoints)
  IN  IF lx.tag # "ok" THEN lx
      ELSE IF ly.tag # "ok" THEN ly
      ELSE
        LET wx == cubicWeights(lx.factor)
            wy == cubicWeights(ly.factor)
            RowAt(i) == grid[Max2(0, Min2(lx.index + i, Len(grid) - 1)) + 1]
            z1Rows == [i \in 1 .. 4 |->
                         interpolate1D(RowCells(RowAt(i - 2), ly.index, "z1"), wy)]
            z2Rows == [i \in 1 .. 4 |->
                         interpolate1D(RowCells(RowAt(i - 2), ly.index, "z2"), wy)]
        IN  [tag |-> "ok",
             z1 |-> interpolate1D(z1Rows, wx),
             z2 |-> interpolate1D(z2Rows, wx)]

\* calculateClimb with Math.floor for Math.round
calculateClimbFloor(isaTempDeviation, altHundreds) ==
  LET bicubicResult == bicubicInterpolate(climbGrid, isaTempDeviation, altHundreds)
  IN  IF bicubicResult.tag # "ok" THEN bicubicResult
      ELSE [tag |-> "ok",
            minutes |-> R(RFloor(bicubicResult.z1)),
            fuelGal |-> bicubicResult.z2]

calculateClimb(isaTempDeviation, altHundreds) ==
  LET bicubicResult == bicubicInterpolate(climbGrid, isaTempDeviation, altHundreds)
  IN  IF bicubicResult.tag # "ok" THEN bicubicResult
      ELSE [tag |-> "ok",
            minutes |-> R(MathRound(bicubicResult.z1)),
            fuelGal |-> bicubicResult.z2]

MaxIsaSteps == 7       \* ISA deviations asked for: 5 degree steps from
                       \* -MaxIsaSteps * 5 to MaxIsaSteps * 5
MaxAltHundreds == 130  \* altitudes asked for: 0 .. MaxAltHundreds (x100 ft)

ClimbIsaQueries == {R(k * 5) : k \in -MaxIsaSteps .. MaxIsaSteps}
ClimbAltQueries == {R(k) : k \in 0 .. MaxAltHundreds}

\* the queries are drawn here; the one action answers the query drawn
InitClimb ==
  \E isa \in ClimbIsaQueries, alt \in ClimbAltQueries :
    /\ spline = NoSpline
    /\ call = [op |-> "calculateClimb", isaTempDeviation |-> isa, altHundreds |-> alt]
    /\ ret = [tag |-> "pending"]

CalculateClimb ==
  /\ call.op = "calculateClimb"
  /\ ret.tag = "pending"
  /\ ret' = calculateClimb(call.isaTempDeviation, call.altHundreds)
  /\ UNCHANGED <<spline, call>>

NextClimb == CalculateClimb

SpecClimb == InitClimb /\ [][NextClimb]_vars

(* ------------------------------------------------------------------ *)
(* Bilinear table lookup and the Warrior III climb tables              *)
(* ------------------------------------------------------------------ *)

\* bilinear with t measured back from x1 instead of forward from x0
bilinearFromHigh(x, y, x0, x1, y0, y1, f00, f10, f01, f11) ==
  LET t == RDiv(RSub(x1, x), RSub(x1, x0))
      u == RDiv(RSub(y, y0), RSub(y1, y0))
      t1 == RSub(R(1), t)
      u1 == RSub(R(1), u)
  IN  RAdd(RAdd(RMul(RMul(t1, u1), f00), RMul(RMul(t, u1), f10)),
           RAdd(RMul(RMul(t1, u), f01), RMul(RMul(t, u), f11)))

bilinear(x, y, x0, x1, y0, y1, f00, f10, f01, f11) ==
  LET t == RDiv(RSub(x, x0), RSub(x1, x0))
      u == RDiv(RSub(y, y0), RSub(y1, y0))
      t1 == RSub(R(1), t)
      u1 == RSub(R(1), u)
  IN  RAdd(RAdd(RMul(RMul(t1, u1), f00), RMul(RMul(t, u1), f10)),
           RAdd(RMul(RMul(t1, u), f01), RMul(RMul(t, u), f11)))

\* the for loop of idx from index i (0-based, as in the source)
RECURSIVE IdxLoop(_, _, _)
IdxLoop(arr, v, i) ==
  IF i >= Len(arr) - 1
    THEN [tag |-> "Error", msg |-> "should never get here"]
  ELSE IF RGe(v, arr[i + 1]) /\ RLe(v, arr[i + 2])
    THEN [tag |-> "ok", lo |-> i, hi |-> i + 1]
  ELSE IdxLoop(arr, v, i + 1)

\* idx without the clamp below the first axis value
idxNoClampLow(arr, v) ==
  IF RGe(v, arr[Len(arr)])
    THEN [tag |-> "ok", lo |-> Len(arr) - 1, hi |-> Len(arr) - 1]
  ELSE IdxLoop(arr, v, 0)

\* idx without the clamp above the last axis value
idxNoClampHigh(arr, v) ==
  IF RLe(v, arr[1]) THEN [tag |-> "ok", lo |-> 0, hi |-> 0]
  ELSE IdxLoop(arr, v, 0)

\* the helper idx of lookup: the pair [i0, i1] of 0-based bracketing indices
idx(arr, v) ==
  IF RLe(v, arr[1]) THEN [tag |-> "ok", lo |-> 0, hi |-> 0]
  ELSE IF RGe(v, arr[Len(arr)])
    THEN [tag |-> "ok", lo |-> Len(arr) - 1, hi |-> Len(arr) - 1]
  ELSE IdxLoop(arr, v, 0)

lookup(paFt, isaDevC, grid) ==
  LET I == idx(grid.pa, paFt)
      J == idx(grid.isa, isaDevC)
  IN  IF I.tag # "ok" THEN I
      ELSE IF J.tag # "ok" THEN J
      ELSE
        LET i0 == I.lo
            i1 == I.hi
            j0 == J.lo
            j1 == J.hi
            T(i, j) == grid.table[i + 1][j + 1]
        IN  IF i0 = i1 /\ j0 = j1 THEN [tag |-> "ok", val |-> T(i0, j0)]
            ELSE IF i0 = i1
              THEN LET f0 == T(i0, j0)
                       f1 == T(i0, j1)
                   IN  [tag |-> "ok",
                        val |-> RAdd(f0,
                          RDiv(RMul(RSub(f1, f0),
                                    RSub(isaDevC, grid.isa[j0 + 1])),
                               RSub(grid.isa[j1 + 1], grid.isa[j0 + 1])))]
            ELSE IF j0 = j1
              THEN LET f0 == T(i0, j0)
                       f1 == T(i1, j0)
                   IN  [tag |-> "ok",
                        val |-> RAdd(f0,
                          RDiv(RMul(RSub(f1, f0),
                                    RSub(paFt, grid.pa[i0 + 1])),
                               RSub(grid.pa[i1 + 1], grid.pa[i0 + 1])))]
            ELSE [tag |-> "ok",
                  val |-> bilinear(paFt, isaDevC,
                                   grid.pa[i0 + 1], grid.pa[i1 + 1],
                                   grid.isa[j0 + 1], grid.isa[j1 + 1],
                                   T(i0, j0), T(i1, j0), T(i0, j1), T(i1, j1))]

\* a table row written in hundredths (1.8 is 180, 7.25 is 725)
Hundredths(s) == [i \in 1 .. Len(s) |-> Norm(s[i], 100)]

climbMinGrid ==
  [isa |-> Ints(<<-15, 0, 15, 30>>),
   pa |-> Ints(<<0, 1000, 2000, 3000, 4000, 5000, 6000, 7000, 8000, 9000,
                 10000>>),
   table |-> <<Hundredths(<<0, 0, 0, 0>>),
               Hundredths(<<180, 200, 220, 240>>),
               Hundredths(<<280, 300, 350, 500>>),
               Hundredths(<<450, 500, 600, 750>>),
               Hundredths(<<600, 725, 900, 1050>>),
               Hundredths(<<800, 1000, 1200, 1500>>),
               Hundredths(<<1050, 1250, 1550, 2000>>),
               Hundredths(<<1300, 1550, 1950, 2200>>),
               Hundredths(<<1600, 1900, 2550, 3500>>),
               Hundredths(<<1900, 2400, 3250, 5300>>),
               Hundredths(<<2300, 2950, 3800, 5300>>)>>]

fuelGalGrid ==
  [isa |-> Ints(<<-15, 0, 15, 30>>),
   pa |-> Ints(<<0, 1000, 2000, 3000, 4000, 5000, 6000, 7000, 8000, 9000,
                 10000>>),
   table |-> <<Hundredths(<<100, 100, 100, 100>>),
               Hundredths(<<120, 130, 140, 150>>),
               Hundredths(<<160, 170, 180, 195>>),
               Hundredths(<<190, 200, 215, 240>>),
               Hundredths(<<220, 245, 280, 315>>),
               Hundredths(<<260, 300, 345, 400>>),
               Hundredths(<<310, 350, 405, 500>>),
               Hundredths(<<370, 415, 500, 620>>),
               Hundredths(<<410, 490, 610, 800>>),
               Hundredths(<<485, 580, 750, 1180>>),
               Hundredths(<<560, 645, 860, 1180>>)>>]

getClimbMin(pressAltFt, isaDeviation) ==
  lookup(pressAltFt, isaDeviation, climbMinGrid)

getClimbFuelGal(pressAltFt, isaDeviation) ==
  lookup(pressAltFt, isaDeviation, fuelGalGrid)

MaxAxis == 4           \* longest axis handed to interp1

\* the strictly increasing axes of up to MaxAxis values
AxisInputs ==
  {xs \in XsInputs :
     /\ Len(xs) \in 1 .. MaxAxis
     /\ \A i \in 1 .. Len(xs) - 1 : RLt(xs[i], xs[i + 1])}

GridOf(name) == IF name = "climbMinGrid" THEN climbMinGrid ELSE fuelGalGrid

\* the queries are drawn here: a lookup in one of the two climb tables, or an
\* interp1 over a drawn axis; the actions answer the query drawn
InitLookup ==
  /\ spline = NoSpline
  /\ ret = [tag |-> "pending"]
  /\ \/ \E g \in {"climbMinGrid", "fuelGalGrid"},
           paFt \in PaQueries, isaDevC \in IsaQueries :
          call = [op |-> "lookup", grid |-> g,
                  paFt |-> paFt, isaDevC |-> isaDevC]
     \/ \E xs \in AxisInputs, v \in XQueries :
          \E ys \in [1 .. Len(xs) -> {R(y) : y \in YVals}] :
            call = [op |-> "interp1", xs |-> xs, ys |-> ys, v |-> v]

Lookup ==
  /\ call.op = "lookup"
  /\ ret.tag = "pending"
  /\ ret' = lookup(call.paFt, call.isaDevC, GridOf(call.grid))
  /\ UNCHANGED <<spline, call>>

Interp1 ==
  /\ call.op = "interp1"
  /\ ret.tag = "pending"
  /\ ret' = interp1(call.xs, call.ys, call.v)
  /\ UNCHANGED <<spline, call>>

NextLookup == Lookup \/ Interp1

SpecLookup == InitLookup /\ [][NextLookup]_vars

(* ------------------------------------------------------------------ *)
(* Magnetic variation                                                  *)
(* ------------------------------------------------------------------ *)

\* a JS number: a finite value (a rational), NaN, Infinity or -Infinity
Fin(q) == [k |-> "fin", v |-> q]
NaN == [k |-> "NaN", v |-> R(0)]
PosInfinity == [k |-> "Infinity", v |-> R(0)]
NegInfinity == [k |-> "-Infinity", v |-> R(0)]

isNaN(a) == a.k = "NaN"

\* a <= b on JS numbers other than NaN
JsLe(a, b) ==
  \/ a.k = "-Infinity"
  \/ b.k = "Infinity"
  \/ a.k = "fin" /\ b.k = "fin" /\ RLe(a.v, b.v)

\* Math.min and Math.max of two numbers: NaN when either is NaN
MathMin(a, b) ==
  IF isNaN(a) \/ isNaN(b) THEN NaN ELSE IF JsLe(a, b) THEN a ELSE b
MathMax(a, b) ==
  IF isNaN(a) \/ isNaN(b) THEN NaN ELSE IF JsLe(a, b) THEN b ELSE a

MAG_VAR_GRID ==
  [minLat |-> R(-50), maxLat |-> R(-10), minLon |-> R(110), maxLon |-> R(180),
   latStep |-> R(10), lonStep |-> R(10),
   values |-> <<Ints(<<15, 16, 17, 18, 19, 20, 21>>),
                Ints(<<12, 13, 14, 15, 16, 17, 18>>),
                Ints(<<9, 10, 11, 12, 13, 14, 15>>),
                Ints(<<6, 7, 8, 9, 10, 11, 12>>),
                Ints(<<3, 4, 5, 6, 7, 8, 9>>)>>]

\* values[row][col] of the grid (0-based), undefined past the end of a row
MagVarCell(row, col) ==
  IF col >= 0 /\ col < Len(MAG_VAR_GRID.values[row + 1])
    THEN MAG_VAR_GRID.values[row + 1][col + 1]
    ELSE Undefined

\* getMagVar: the value rounded to one decimal. A NaN latitude makes
\* values[lat1] undefined and reading [lon1] of it throws a TypeError; a NaN
\* longitude alone makes every corner undefined, and arithmetic on an
\* undefined corner (column lon1 = 7 at the clamped longitude 180) gives NaN
getMagVar(lat, lon) ==
  LET G == MAG_VAR_GRID
      clampedLat == MathMax(Fin(G.minLat), MathMin(Fin(G.maxLat), lat))
      clampedLon == MathMax(Fin(G.minLon), MathMin(Fin(G.maxLon), lon))
  IN  IF isNaN(clampedLat)
        THEN [tag |-> "TypeError",
              msg |-> "Cannot read properties of undefined"]
      ELSE IF isNaN(clampedLon) THEN [tag |-> "ok", val |-> NaN]
      ELSE
        LET latIndex == RDiv(RSub(clampedLat.v, G.minLat), G.latStep)
            lonIndex == RDiv(RSub(clampedLon.v, G.minLon), G.lonStep)
            lat1 == RFloor(latIndex)
            lat2 == Min2(lat1 + 1, Len(G.values) - 1)
            lon1 == RFloor(lonIndex)
            lon2 == Min2(lon1 + 1, Len(G.values[1]) - 1)
            latFrac == RSub(latIndex, R(lat1))
            lonFrac == RSub(lonIndex, R(lon1))
            v11 == MagVarCell(lat1, lon1)
            v12 == MagVarCell(lat1, lon2)
            v21 == MagVarCell(lat2, lon1)
            v22 == MagVarCell(lat2, lon2)
            v1 == RAdd(RMul(v11, RSub(R(1), lonFrac)), RMul(v12, lonFrac))
            v2 == RAdd(RMul(v21, RSub(R(1), lonFrac)), RMul(v22, lonFrac))
            result == RAdd(RMul(v1, RSub(R(1), latFrac)), RMul(v2, latFrac))
        IN  IF Undefined \in {v11, v12, v21, v22}
              THEN [tag |-> "ok", val |-> NaN]
              ELSE [tag |-> "ok",
                    val |-> Fin(Norm(MathRound(RMul(result, R(10))), 10))]

\* getMagVarSafe: 0 for a NaN coordinate and for an error caught
getMagVarSafe(lat, lon) ==
  IF isNaN(lat) \/ isNaN(lon) THEN [tag |-> "ok", val |-> Fin(R(0))]
  ELSE LET r == getMagVar(lat, lon)
       IN  IF r.tag # "ok" THEN [tag |-> "ok", val |-> Fin(R(0))] ELSE r

MaxLatSteps == 24      \* latitudes asked for: -60 + 2.5 k, k in 0 .. MaxLatSteps
MaxLonSteps == 18      \* longitudes asked for: 100 + 5 k, k in 0 .. MaxLonSteps

NonFinite == {NaN, PosInfinity, NegInfinity}
LatQueries == NonFinite \cup {Fin(Norm(5 * k - 120, 2)) : k \in 0 .. MaxLatSteps}
LonQueries == NonFinite \cup {Fin(R(100 + 5 * k)) : k \in 0 .. MaxLonSteps}

\* the queries are drawn here; the actions answer the query drawn
InitMagVar ==
  \E op \in {"getMagVar", "getMagVarSafe"}, lat \in LatQueries,
     lon \in LonQueries :
    /\ spline = NoSpline
    /\ call = [op |-> op, lat |-> lat, lon |-> lon]
    /\ ret = [tag |-> "pending"]

GetMagVar ==
  /\ call.op = "getMagVar"
  /\ ret.tag = "pending"
  /\ ret' = getMagVar(call.lat, call.lon)
  /\ UNCHANGED <<spline, call>>

GetMagVarSafe ==
  /\ call.op = "getMagVarSafe"
  /\ ret.tag = "pending"
  /\ ret' = getMagVarSafe(call.lat, call.lon)
  /\ UNCHANGED <<spline, call>>

NextMagVar == GetMagVar \/ GetMagVarSafe

SpecMagVar == InitMagVar /\ [][NextMagVar]_vars

(* ------------------------------------------------------------------ *)
(* The climb calculators: form state and render                        *)
(* ------------------------------------------------------------------ *)

minsXs ==
  Ints(<<0, 10, 20, 30, 40, 50, 60, 70, 80, 90, 100, 110, 120, 130, 140, 150,
         160>>)
fuelGalXs == Ints(<<0, 20, 40, 60, 70, 80, 100, 110, 120, 130, 150, 160>>)

\* what findSegment reads of a spline over the knots xs: the segments' left
\* knots and, in the linear-scan class, the first and last knot
KnotSpline(cls, xs) ==
  [cls |-> cls, nsegs |-> Len(xs) - 1,
   segs |-> [i \in 0 .. Len(xs) - 2 |-> [x0 |-> xs[i + 1]]],
   xFirst |-> xs[1], xLast |-> xs[Len(xs)]]

\* whether eval(x) returns or throws; the value returned plays no part in
\* what render does next
EvalOutcome(s, x) ==
  LET f == FindSegment(s, x)
  IN  IF f.tag = "seg" THEN [tag |-> "ok"] ELSE f

\* getClimbMin and getClimbGal of the Arrow III (getClimbL is getClimbGal
\* times 3.8), for either CubicSpline class
arrow3GetClimbMin(cls, densityAltHundreds) ==
  EvalOutcome(KnotSpline(cls, minsXs), densityAltHundreds)
arrow3GetClimbGal(cls, densityAltHundreds) ==
  EvalOutcome(KnotSpline(cls, fuelGalXs), densityAltHundreds)

\* densityAltitudeISA in feet. The source computes it with Math.pow and
\* rounds to a whole foot; for the ISA deviations 0 and 1 and the altitudes
\* 0 .. 17500 ft in 500 ft steps that the form reaches here, the rounded
\* value is pressureAltitudeFt + 31 * isaDevC.
densityAltitudeISA(pressureAltitudeFt, isaDevC) ==
  pressureAltitudeFt + 31 * isaDevC

\* render of Arrow3ClimbCalc: six uncaught evaluations, the first throw wins
Arrow3Render(f) ==
  LET fromDensityAlt ==
        Max2(0, densityAltitudeISA(Max2(0, f.fromAlt * 100), f.fromIsa))
      toDensityAlt ==
        Max2(0, densityAltitudeISA(Max2(0, f.toAlt * 100), f.toIsa))
      xFrom == Norm(fromDensityAlt, 100)
      xTo == Norm(toDensityAlt, 100)
      evals == <<arrow3GetClimbMin(f.cls, xFrom), arrow3GetClimbMin(f.cls, xTo),
                 arrow3GetClimbGal(f.cls, xFrom), arrow3GetClimbGal(f.cls, xTo),
                 arrow3GetClimbGal(f.cls, xTo), arrow3GetClimbGal(f.cls, xFrom)>>
      thrown == {i \in 1 .. Len(evals) : evals[i].tag # "ok"}
  IN  IF thrown = {} THEN [tag |-> "ok", unavailable |-> FALSE]
      ELSE evals[CHOOSE i \in thrown : \A j \in thrown : i <= j]

\* render of ClimbCalc: each calculateClimb in its own try, null when caught
ClimbCalcRender(f) ==
  LET fromClimb == calculateClimb(R(f.fromIsa), R(f.fromAlt))
      toClimb == calculateClimb(R(f.toIsa), R(f.toAlt))
  IN  [tag |-> "ok",
       unavailable |-> fromClimb.tag # "ok" \/ toClimb.tag # "ok"]

\* render of Warrior3ClimbCalc: the four lookups in one try, all null when
\* one is caught
Warrior3Render(f) ==
  LET looked == <<getClimbMin(R(f.fromAlt * 100), R(f.fromIsa)),
                  getClimbFuelGal(R(f.fromAlt * 100), R(f.fromIsa)),
                  getClimbMin(R(f.toAlt * 100), R(f.toIsa)),
                  getClimbFuelGal(R(f.toAlt * 100), R(f.toIsa))>>
  IN  [tag |-> "ok",
       unavailable |-> \E i \in 1 .. Len(looked) : looked[i].tag # "ok"]

Render(f) ==
  IF f.component = "Arrow3ClimbCalc" THEN Arrow3Render(f)
  ELSE IF f.component = "ClimbCalc" THEN ClimbCalcRender(f)
  ELSE Warrior3Render(f)

MaxAltField == 170     \* the + buttons are pressed up to this altitude (x100 ft)
MaxBelowZero == 10     \* the - buttons are pressed down to -MaxBelowZero
AltEdits == {0, 120}           \* altitudes typed into a field
IsaFieldValues == {0, 1}       \* ISA deviations typed or reached by +/-
FromSliderValues == {0, 60}    \* of the slider with min 0, max 65, step 5
ToSliderValues == {10, 70}     \* of the slider with min 10, max 75, step 5

\* the form after useForm with its default values, before its first render
InitForm ==
  \E c \in {"ClimbCalc", "Warrior3ClimbCalc", "Arrow3ClimbCalc"},
     cls \in {"binary", "linear"} :
    /\ c # "Arrow3ClimbCalc" => cls = "linear"
    /\ spline = NoSpline
    /\ call = [op |-> "render", component |-> c, cls |-> cls,
               fromAlt |-> 0, toAlt |-> IF c = "ClimbCalc" THEN 10 ELSE 25,
               fromIsa |-> 0, toIsa |-> 0]
    /\ ret = [tag |-> "pending"]

\* the component function runs on the watched values: the first render, and
\* the re-render that every setValue and every field change brings about
RenderForm ==
  /\ call.op = "render"
  /\ ret.tag = "pending"
  /\ ret' = Render(call)
  /\ UNCHANGED <<spline, call>>

\* setValue or a field's onChange on the rendered form: the value is stored
\* and a re-render is due; a render that threw has unmounted the form
SetValue(field, v) ==
  /\ call.op = "render"
  /\ ret.tag = "ok"
  /\ call' = [call EXCEPT ![field] = v]
  /\ ret' = [tag |-> "pending"]
  /\ UNCHANGED spline

EditAlt == \E field \in {"fromAlt", "toAlt"}, v \in AltEdits : SetValue(field, v)

EditIsa ==
  \E field \in {"fromIsa", "toIsa"}, v \in IsaFieldValues : SetValue(field, v)

PressAlt ==
  \E field \in {"fromAlt", "toAlt"}, d \in {-10, 10} :
    /\ call.op = "render"
    /\ call[field] + d >= -MaxBelowZero
    /\ call[field] + d <= MaxAltField
    /\ SetValue(field, call[field] + d)

PressIsa ==
  \E field \in {"fromIsa", "toIsa"}, d \in {-1, 1} :
    /\ call.op = "render"
    /\ call[field] + d \in IsaFieldValues
    /\ SetValue(field, call[field] + d)

SlideAlt ==
  /\ call.op = "render"
  /\ call.component = "ClimbCalc"
  /\ \/ \E v \in FromSliderValues : SetValue("fromAlt", v)
     \/ \E v \in ToSliderValues : SetValue("toAlt", v)

NextForm ==
  RenderForm \/ EditAlt \/ EditIsa \/ PressAlt \/ PressIsa \/ SlideAlt

SpecForm == InitForm /\ [][NextForm]_vars

(* ------------------------------------------------------------------ *)
(* computeTopOfClimb and the aircraft climb rates                      *)
(* ------------------------------------------------------------------ *)

\* the figures of the two aircraft profiles that climbRateFpm uses
warrior3 ==
  [id |-> "warrior3", baseClimbRate |-> 700, zeroClimbFt |-> 15000,
   weightLb |-> 2440]
arrow3 ==
  [id |-> "arrow3", baseClimbRate |-> 850, zeroClimbFt |-> 18000,
   weightLb |-> 2750]

lookupAircraft(id) ==
  IF id = "warrior3" THEN warrior3
  ELSE IF id = "arrow3" THEN arrow3
  ELSE [tag |-> "Error", msg |-> "Aircraft with ID not found"]

RMax(p, q) == IF RLt(p, q) THEN q ELSE p
RMin(p, q) == IF RLt(p, q) THEN p ELSE q

\* 2.20462 lb per kg is the rational 220462 / 100000
climbRateFpm(aircraft, ISAdev, altFeet, weightKg) ==
  LET altitudeFactor ==
        RMax(R(0), RSub(R(1), Norm(altFeet, aircraft.zeroClimbFt)))
      tempFactor == RMax(<<7, 10>>, RSub(R(1), Norm(ISAdev, 30)))
      weightFactor ==
        RMin(<<6, 5>>, Norm(aircraft.weightLb * 100000, weightKg * 220462))
  IN  MathRound(RMul(RMul(RMul(R(aircraft.baseClimbRate), altitudeFactor),
                          tempFactor), weightFactor))

\* altitudeFromHereFt is null or a number: <<>> or <<ft>>
Null == <<>>
Truthy(a) == a # Null /\ a[1] # 0

\* the loop body without the assignment to currentAlt
TopOfClimbStepNoRaise(st, i, waypoint, aircraft, isaDev) ==
  IF Truthy(waypoint.altitudeFromHereFt)
       /\ waypoint.altitudeFromHereFt[1] > st.currentAlt
    THEN LET climbRate == climbRateFpm(aircraft, isaDev, st.currentAlt, 1000)
         IN  [currentAlt |-> st.currentAlt,
              result |->
                IF climbRate > 0
                  THEN Append(st.result,
                              [index |-> i,
                               altFt |-> waypoint.altitudeFromHereFt[1]])
                  ELSE st.result]
    ELSE st

\* one iteration of the loop of computeTopOfClimb, for the 0-based index i
TopOfClimbStep(st, i, waypoint, aircraft, isaDev) ==
  IF Truthy(waypoint.altitudeFromHereFt)
       /\ waypoint.altitudeFromHereFt[1] > st.currentAlt
    THEN LET climbRate == climbRateFpm(aircraft, isaDev, st.currentAlt, 1000)
         IN  [currentAlt |-> waypoint.altitudeFromHereFt[1],
              result |->
                IF climbRate > 0
                  THEN Append(st.result,
                              [index |-> i,
                               altFt |-> waypoint.altitudeFromHereFt[1]])
                  ELSE st.result]
    ELSE st

MaxWaypoints == 3      \* waypoints of a route: 0 .. MaxWaypoints

\* altitudes around both aircraft's zero-climb altitudes, a descent and the
\* falsy 0 and null
TocAltitudes ==
  {Null, <<0>>, <<-500>>, <<3000>>, <<14995>>, <<15000>>, <<18000>>, <<19500>>}
TocIsaDevs == {-15, 0, 15}
TocRoutes ==
  UNION {[1 .. n -> {[altitudeFromHereFt |-> a] : a \in TocAltitudes}] :
           n \in 0 .. MaxWaypoints}

\* the state on entry of the loop: result empty, currentAlt 0, i 0
InitToc ==
  \E wps \in TocRoutes, id \in {"warrior3", "arrow3"}, isaDev \in TocIsaDevs :
    /\ spline = NoSpline
    /\ call = [op |-> "computeTopOfClimb", waypoints |-> wps,
               aircraft |-> lookupAircraft(id), isaDev |-> isaDev]
    /\ ret = [tag |-> "loop", i |-> 0, currentAlt |-> 0, result |-> <<>>]

TocIterate ==
  /\ call.op = "computeTopOfClimb"
  /\ ret.tag = "loop"
  /\ ret.i < Len(call.waypoints)
  /\ LET st == TopOfClimbStep([currentAlt |-> ret.currentAlt,
                               result |-> ret.result],
                              ret.i, call.waypoints[ret.i + 1],
                              call.aircraft, call.isaDev)
     IN  ret' = [tag |-> "loop", i |-> ret.i + 1,
                 currentAlt |-> st.currentAlt, result |-> st.result]
  /\ UNCHANGED <<spline, call>>

TocReturn ==
  /\ call.op = "computeTopOfClimb"
  /\ ret.tag = "loop"
  /\ ret.i >= Len(call.waypoints)
  /\ ret' = [ret EXCEPT !.tag = "ok"]
  /\ UNCHANGED <<spline, call>>

NextToc == TocIterate \/ TocReturn

SpecToc == InitToc /\ [][NextToc]_vars

(* ------------------------------------------------------------------ *)
(* Leg metrics: true and magnetic track                                *)
(* ------------------------------------------------------------------ *)

\* a % n of JS for finite a and positive n: the remainder has the sign of a
JsRem(a, n) ==
  LET q == RDiv(a, R(n))
      t == IF RLt(q, R(0)) THEN -RFloor(<<-q[1], q[2]>>) ELSE RFloor(q)
  IN  RSub(a, R(n * t))

\* calculateBearing from toDegrees(Math.atan2(y, x)), a value in [-180, 180]
\* that stands for the trigonometry on the two points
calculateBearing(atan2Deg) == JsRem(RAdd(atan2Deg, R(360)), 360)

\* computeLegMetrics from the haversine distance, the atan2 angle of the
\* bearing and the midpoint that the trigonometry yields for p1 and p2
computeLegMetrics(distance, atan2Deg, midLat, midLon) ==
  LET distanceNM == distance
      trueTrackDeg == calculateBearing(atan2Deg)
      magVar == getMagVar(Fin(midLat), Fin(midLon))
  IN  IF magVar.tag # "ok" THEN magVar
      ELSE
        LET magVarDeg == magVar.val
            magTrackDeg ==
              IF isNaN(magVarDeg) THEN NaN
              ELSE Fin(JsRem(RAdd(RSub(trueTrackDeg, magVarDeg.v), R(360)),
                             360))
        IN  [tag |-> "ok",
             distanceNM |-> Fin(Norm(MathRound(RMul(distanceNM, R(10))), 10)),
             trueTrackDeg |-> Fin(R(MathRound(trueTrackDeg))),
             magTrackDeg |->
               IF isNaN(magTrackDeg) THEN NaN
               ELSE Fin(R(MathRound(magTrackDeg.v)))]

TrackSteps == 720      \* atan2 angles asked for: 180 k / TrackSteps degrees,
                       \* k in -TrackSteps .. TrackSteps

Atan2Degs == {Norm(180 * k, TrackSteps) : k \in -TrackSteps .. TrackSteps}
LegDistances == {R(0), <<44312, 100>>}
LegMidpoints ==
  {<<R(-34), R(151)>>, <<(<<-146, 5>>), (<<1473, 10>>)>>, <<R(-45), R(112)>>,
   <<R(-17), R(180)>>}

InitLeg ==
  \E d \in LegDistances, a \in Atan2Degs, mid \in LegMidpoints :
    /\ spline = NoSpline
    /\ call = [op |-> "computeLegMetrics", distance |-> d, atan2Deg |-> a,
               midLat |-> mid[1], midLon |-> mid[2]]
    /\ ret = [tag |-> "pending"]

ComputeLegMetrics ==
  /\ call.op = "computeLegMetrics"
  /\ ret.tag = "pending"
  /\ ret' = computeLegMetrics(call.distance, call.atan2Deg, call.midLat,
                              call.midLon)
  /\ UNCHANGED <<spline, call>>

NextLeg == ComputeLegMetrics

SpecLeg == InitLeg /\ [][NextLeg]_vars

(* ------------------------------------------------------------------ *)
(* Flight plan scenarios: generateScenarios                            *)
(* ------------------------------------------------------------------ *)

\* A waypoint is [isAirport, refuelOptional], a variant [type, waypoints,
\* ete, fuel], a stage [variants]; a stage's id is its position in the plan
\* and a variant's id its position in the stage (the uuids are unique).

\* hasRefuelOption without the isAirport test
hasRefuelOptionAnyWaypoint(variant) ==
  \E i \in 1 .. Len(variant.waypoints) : variant.waypoints[i].refuelOptional

hasRefuelOption(variant) ==
  \E i \in 1 .. Len(variant.waypoints) :
    variant.waypoints[i].isAirport /\ variant.waypoints[i].refuelOptional

CombinationItem(stageIndex, v, variant, refuel) ==
  [stageId |-> stageIndex, variantId |-> v, variantType |-> variant.type,
   refuel |-> refuel]

\* the loop over a complete combination: ETE and fuel totals, fuel remaining
RECURSIVE ScenarioTotals(_, _, _, _)
ScenarioTotals(stages, combination, i, acc) ==
  IF i > Len(combination) THEN acc
  ELSE
    LET item == combination[i]
        variant == stages[item.stageId].variants[item.variantId]
        fuelRemain == IF item.refuel THEN 181 ELSE acc.fuelRemain
    IN  ScenarioTotals(stages, combination, i + 1,
                       [totalEte |-> acc.totalEte + variant.ete,
                        totalFuel |-> acc.totalFuel + variant.fuel,
                        fuelRemain |-> fuelRemain - variant.fuel])

\* the scenario pushed for a complete combination (its name is the list of
\* variantType and refuel of stageVariants, its id a fresh uuid)
NewScenario(stages, combination) ==
  LET t == ScenarioTotals(stages, combination, 1,
                          [totalEte |-> 0, totalFuel |-> 0, fuelRemain |-> 181])
  IN  [stageVariants |-> combination,
       totalEte |-> t.totalEte,
       totalFuel |-> t.totalFuel,
       fuelRemain |-> t.fuelRemain,
       isValid |-> t.fuelRemain >= 30]

\* the scenarios pushed by generateCombinations(stageIndex, currentCombination)
\* in the order pushed; VariantLoop is its loop from variant v on
RECURSIVE generateCombinations(_, _, _), VariantLoop(_, _, _, _)
generateCombinations(stages, stageIndex, currentCombination) ==
  IF stageIndex > Len(stages) THEN <<NewScenario(stages, currentCombination)>>
  ELSE VariantLoop(stages, stageIndex, currentCombination, 1)

VariantLoop(stages, stageIndex, currentCombination, v) ==
  IF v > Len(stages[stageIndex].variants) THEN <<>>
  ELSE
    LET variant == stages[stageIndex].variants[v]
        With(refuel) ==
          generateCombinations(
            stages, stageIndex + 1,
            Append(currentCombination,
                   CombinationItem(stageIndex, v, variant, refuel)))
    IN  (IF hasRefuelOption(variant) THEN With(FALSE) \o With(TRUE)
         ELSE With(FALSE))
        \o VariantLoop(stages, stageIndex, currentCombination, v + 1)

\* the list handed to setScenarios
generateScenarios(stages) ==
  LET newScenarios == generateCombinations(stages, 1, <<>>)
  IN  SubSeq(newScenarios, 1, Min2(Len(newScenarios), 1024))

MaxStages == 2         \* plans of 0 .. MaxStages stages of every shape
CapStages == 6         \* plans of MaxStages + 1 .. CapStages stages with two
                       \* refuel-optional variants each (4 rows a stage)

Airport == [isAirport |-> TRUE, refuelOptional |-> FALSE]
RefuelAirport == [isAirport |-> TRUE, refuelOptional |-> TRUE]
FlaggedFix == [isAirport |-> FALSE, refuelOptional |-> TRUE]

\* routes: no flag, a refuel-optional destination, a flag on a waypoint that
\* is not an airport
RouteShapes ==
  {<<Airport, Airport>>, <<Airport, RefuelAirport>>,
   <<Airport, FlaggedFix, Airport>>}
\* rounded ETE (min) and fuel (L) of a variant: a short and a long one
PerfValues == {[ete |-> 30, fuel |-> 60], [ete |-> 95, fuel |-> 200]}

VariantOf(type, wps, perf) ==
  [type |-> type, waypoints |-> wps, ete |-> perf.ete, fuel |-> perf.fuel]
CtaVariants == {VariantOf("CTA", w, p) : w \in RouteShapes, p \in PerfValues}
OctaVariants == {VariantOf("OCTA", w, p) : w \in RouteShapes, p \in PerfValues}
StageShapes ==
  {[variants |-> <<c>>] : c \in CtaVariants}
    \cup {[variants |-> <<c, o>>] : c \in CtaVariants, o \in OctaVariants}
FullStage ==
  [variants |->
     <<VariantOf("CTA", <<Airport, RefuelAirport>>, [ete |-> 30, fuel |-> 60]),
       VariantOf("OCTA", <<Airport, RefuelAirport>>, [ete |-> 30, fuel |-> 60])>>]
PlanInputs ==
  UNION {[1 .. n -> StageShapes] : n \in 0 .. MaxStages}
    \cup {[i \in 1 .. n |-> FullStage] : n \in MaxStages + 1 .. CapStages}

InitScenarios ==
  \E stages \in PlanInputs :
    /\ spline = NoSpline
    /\ call = [op |-> "generateScenarios", stages |-> stages]
    /\ ret = [tag |-> "pending"]

GenerateScenarios ==
  /\ call.op = "generateScenarios"
  /\ ret.tag = "pending"
  /\ ret' = [tag |-> "ok", scenarios |-> generateScenarios(call.stages)]
  /\ UNCHANGED <<spline, call>>

NextScenarios == GenerateScenarios

SpecScenarios == InitScenarios /\ [][NextScenarios]_vars

(* ------------------------------------------------------------------ *)
(* Flight planning page: the plan, its handlers and the scenarios      *)
(* ------------------------------------------------------------------ *)

\* call holds currentPlan.stages, the callbacks queued by setTimeout (each
\* with the plan it was given) and the number of plan changes handled; ret
\* holds the scenarios state.  Of a variant only the fields read by
\* generateScenarios are kept.  A handler runs when no callback is queued:
\* the zero-delay callback runs before the next event.

MaxChanges == 3        \* plan changes handled in one run

Fix == [isAirport |-> FALSE, refuelOptional |-> FALSE]

\* intermediate waypoints of the route that shortestOCTARoute returns
OctaIntermediates == {0, 1}

\* the rounded ETE and fuel that the performance calculation yields for a
\* variant: 0 without a leg, else a value that depends on the coordinates,
\* altitudes and temperatures of the waypoints
PerfChoices(waypoints) ==
  IF Len(waypoints) < 2 THEN {[ete |-> 0, fuel |-> 0]} ELSE PerfValues

PageIdle ==
  /\ call.op = "page"
  /\ call.timers = <<>>
  /\ call.changes < MaxChanges

\* splice(i, 1) and splice(i, 0, w) for the 0-based index i
SpliceOut(s, i) == SubSeq(s, 1, i) \o SubSeq(s, i + 2, Len(s))
SpliceIn(s, i, w) == SubSeq(s, 1, i) \o <<w>> \o SubSeq(s, i + 1, Len(s))

\* the stages with the waypoints of one variant replaced and its performance
\* recalculated to perf
WithWaypoints(stages, stageIndex, variantIndex, waypoints, perf) ==
  [stages EXCEPT ![stageIndex + 1].variants[variantIndex + 1] =
     VariantOf(@.type, waypoints, perf)]

InitPage ==
  /\ spline = NoSpline
  /\ call = [op |-> "page", stages |-> <<>>, timers |-> <<>>, changes |-> 0]
  /\ ret = [tag |-> "state", scenarios |-> <<>>]

\* handleAddStage with both airports found: a CTA variant, an OCTA variant
\* when the direct line crosses airspace; the plan given to setCurrentPlan is
\* also given to the generateScenarios callback
HandleAddStage ==
  /\ PageIdle
  /\ \E crossings \in BOOLEAN, n \in OctaIntermediates,
        ctaPerf \in PerfValues, octaPerf \in PerfValues :
       LET ctaWaypoints == <<Airport, Airport>>
           octaWaypoints == <<Airport>> \o [i \in 1 .. n |-> Fix] \o <<Airport>>
           ctaVariant == VariantOf("CTA", ctaWaypoints, ctaPerf)
           octaVariant == VariantOf("OCTA", octaWaypoints, octaPerf)
           variants == IF crossings THEN <<ctaVariant, octaVariant>>
                       ELSE <<ctaVariant>>
           finalStages == Append(call.stages, [variants |-> variants])
       IN  call' = [call EXCEPT !.stages = finalStages,
                                !.timers = Append(@, finalStages),
                                !.changes = @ + 1]
  /\ UNCHANGED <<spline, ret>>

\* the setTimeout callback of handleAddStage: generateScenarios(finalPlan)
TimeoutGenerateScenarios ==
  /\ call.op = "page"
  /\ call.timers # <<>>
  /\ ret' = [ret EXCEPT !.scenarios = generateScenarios(Head(call.timers))]
  /\ call' = [call EXCEPT !.timers = Tail(@)]
  /\ UNCHANGED spline

\* handleWaypointUpdate followed by updatePerformanceCalculations; the edit
\* keeps isAirport and sets refuelOptional (other fields change the
\* performance only)
HandleWaypointUpdate ==
  /\ PageIdle
  /\ \E stageIndex \in 0 .. Len(call.stages) - 1 :
       \E variantIndex \in 0 .. Len(call.stages[stageIndex + 1].variants) - 1 :
         LET wps == call.stages[stageIndex + 1].variants[variantIndex + 1].waypoints
         IN  \E waypointIndex \in 0 .. Len(wps) - 1, refuel \in BOOLEAN :
               LET new == [wps EXCEPT ![waypointIndex + 1].refuelOptional = refuel]
               IN  \E perf \in PerfChoices(new) :
                     call' = [call EXCEPT
                                !.stages = WithWaypoints(@, stageIndex,
                                                         variantIndex, new, perf),
                                !.changes = @ + 1]
  /\ UNCHANGED <<spline, ret>>

\* handleWaypointDelete followed by updatePerformanceCalculations
HandleWaypointDelete ==
  /\ PageIdle
  /\ \E stageIndex \in 0 .. Len(call.stages) - 1 :
       \E variantIndex \in 0 .. Len(call.stages[stageIndex + 1].variants) - 1 :
         LET wps == call.stages[stageIndex + 1].variants[variantIndex + 1].waypoints
         IN  \E waypointIndex \in 0 .. Len(wps) - 1 :
               LET new == SpliceOut(wps, waypointIndex)
               IN  \E perf \in PerfChoices(new) :
                     call' = [call EXCEPT
                                !.stages = WithWaypoints(@, stageIndex,
                                                         variantIndex, new, perf),
                                !.changes = @ + 1]
  /\ UNCHANGED <<spline, ret>>

\* handleWaypointInsert followed by updatePerformanceCalculations: a new
\* waypoint goes in only between two existing ones
HandleWaypointInsert ==
  /\ PageIdle
  /\ \E stageIndex \in 0 .. Len(call.stages) - 1 :
       \E variantIndex \in 0 .. Len(call.stages[stageIndex + 1].variants) - 1 :
         LET variant == call.stages[stageIndex + 1].variants[variantIndex + 1]
             wps == variant.waypoints
         IN  \E waypointIndex \in 1 .. Len(wps) :
               LET inserts == waypointIndex - 1 >= 0 /\ waypointIndex < Len(wps)
                   new == IF inserts THEN SpliceIn(wps, waypointIndex, Fix)
                          ELSE wps
               IN  \E perf \in (IF inserts THEN PerfChoices(new)
                                ELSE {[ete |-> variant.ete,
                                       fuel |-> variant.fuel]}) :
                     call' = [call EXCEPT
                                !.stages = WithWaypoints(@, stageIndex,
                                                         variantIndex, new, perf),
                                !.changes = @ + 1]
  /\ UNCHANGED <<spline, ret>>

NextPage ==
  \/ HandleAddStage
  \/ TimeoutGenerateScenarios
  \/ HandleWaypointUpdate
  \/ HandleWaypointDelete
  \/ HandleWaypointInsert

SpecPage == InitPage /\ [][NextPage]_vars

(* ------------------------------------------------------------------ *)
(* Properties of the spline                                            *)
(* ------------------------------------------------------------------ *)

EvalDone == call.op = "eval"
XFirstKnot == call.xs[1]
XLastKnot == call.xs[Len(call.xs)]

\* C1: eval accepts every x with xs[0] <= x <= xs[last] and returns a value,
\* and x equal to the last knot resolves to the last segment; for each
\* CubicSpline class.
C1_EvalAcceptsClosedRange ==
  (EvalDone /\ RLe(XFirstKnot, call.x) /\ RLe(call.x, XLastKnot))
    => /\ ret.tag = "ok"
       /\ (call.x = XLastKnot => ret.seg = Len(call.xs) - 2)

\* C2: eval raises a range error for every x < xs[0] and every x > xs[last];
\* no value is returned outside the knot range.
C2_EvalRejectsOutside ==
  (EvalDone /\ (RLt(call.x, XFirstKnot) \/ RGt(call.x, XLastKnot)))
    => ret.tag = "RangeError"

C2_Witness ==
  /\ EvalDone
  /\ call.cls = "linear"
  /\ Len(call.xs) = 3
  /\ call.x = RAdd(XLastKnot, <<1, 2>>)
  /\ ret.tag = "RangeError"

\* C3: for every knot (x_i, y_i) of a constructed spline, eval(x_i) = y_i:
\* first, interior and last knot alike.
C3_EvalAtKnotIsY ==
  EvalDone =>
    \A i \in 1 .. Len(call.xs) :
      call.x = call.xs[i] => (ret.tag = "ok" /\ ret.val = call.ys[i])

\* C4: construction throws (no object exists) whenever xs has fewer than 2
\* points, xs and ys differ in length, or some adjacent pair of xs does not
\* increase; it throws in the constructor, so nothing is ever evaluated on
\* such input; for valid input construction succeeds.
InvalidKnots(xs, ys) ==
  \/ Len(xs) < 2
  \/ Len(xs) # Len(ys)
  \/ \E i \in 1 .. Len(xs) - 1 : ~RLt(xs[i], xs[i + 1])

C4_ConstructorValidates ==
  /\ call.op = "new" =>
        IF InvalidKnots(call.xs, call.ys)
          THEN ret.tag = "Error" /\ spline = NoSpline
          ELSE ret.tag = "ok" /\ spline # NoSpline /\ spline.cls = call.cls
  /\ EvalDone => ~InvalidKnots(call.xs, call.ys)

C4_Witness ==
  /\ call.op = "new"
  /\ Len(call.xs) = 3
  /\ Len(call.ys) = 3
  /\ call.xs[2] = call.xs[3]
  /\ ret.tag = "Error"
  /\ spline = NoSpline

(* ------------------------------------------------------------------ *)
(* Properties of the cruise lookup                                     *)
(* ------------------------------------------------------------------ *)

CruiseDone == call.op = "getWarrior3Cruise" /\ ret.tag = "ok"

\* C5: cruiseLookup returns an rpm that is a multiple of 10 for every query,
\* including paFt at or beyond the first or last row altitude.
C5_RpmMultipleOf10 ==
  CruiseDone => (RIsInt(ret.rpm) /\ ret.rpm[1] % 10 = 0)

\* C6: cruiseLookup returns an integer tas for every query, including paFt
\* at or beyond the first or last row altitude.
C6_TasIsInteger ==
  CruiseDone => RIsInt(ret.tas)

\* C7 as stated: getWarrior3Cruise(0, 0) returns rpm = 2390 and tas = 106.
C7_SeaLevelStdTas106 ==
  (CruiseDone /\ call.paFt = R(0) /\ call.isaDevC = R(0))
    => (ret.rpm = R(2390) /\ ret.tas = R(106))

\* C7 as amended: getWarrior3Cruise(0, 0) returns rpm = 2390 and tas = 102
\* (100 + (0 - -15) / (30 - -15) * (106 - 100)).
C7_SeaLevelStdTas102 ==
  (CruiseDone /\ call.paFt = R(0) /\ call.isaDevC = R(0))
    => (ret.rpm = R(2390) /\ ret.tas = R(102))

C7_Witness ==
  CruiseDone /\ call.paFt = R(0) /\ call.isaDevC = R(0)

(* ------------------------------------------------------------------ *)
(* Properties of the bicubic climb lookup                              *)
(* ------------------------------------------------------------------ *)

ClimbAnswered == call.op = "calculateClimb" /\ ret.tag # "pending"

\* C8: calculateClimb raises an error, and neither clamps nor extrapolates,
\* for every query whose ISA deviation is outside [-15, 30] or whose
\* altitude (hundreds of ft) is outside [10, 120].
C8_ClimbRejectsOutside ==
  (ClimbAnswered /\ (\/ RLt(call.isaTempDeviation, R(-15))
                     \/ RGt(call.isaTempDeviation, R(30))
                     \/ RLt(call.altHundreds, R(10))
                     \/ RGt(call.altHundreds, R(120))))
    => ret.tag = "Error"

C8_Witness ==
  /\ ClimbAnswered
  /\ call.isaTempDeviation = R(0)
  /\ call.altHundreds = R(0)
  /\ ret.tag = "Error"

\* C9: for every (ISA deviation, altitude) pair that is an entry of the
\* climb table, calculateClimb returns that entry's minutes and fuel.
C9_ClimbExactAtEntries ==
  ClimbAnswered =>
    \A k \in 1 .. Len(realClimbFigures) :
      LET f == realClimbFigures[k]
      IN  (call.isaTempDeviation = R(f[1]) /\ call.altHundreds = R(f[2]))
            => /\ ret.tag = "ok"
               /\ ret.minutes = R(f[3])
               /\ ret.fuelGal = Norm(f[4], 10)

C9_Witness ==
  /\ ClimbAnswered
  /\ call.isaTempDeviation = R(0)
  /\ call.altHundreds = R(30)
  /\ ret = [tag |-> "ok", minutes |-> R(5), fuelGal |-> R(2)]

\* C10: for every accepted query, minutes is an integer, the interpolated
\* minutes rounded to the nearest integer, and fuelGal is the interpolated
\* fuel with no rounding.
C10_ClimbRounding ==
  (ClimbAnswered /\ ret.tag = "ok") =>
    LET raw == bicubicInterpolate(climbGrid, call.isaTempDeviation, call.altHundreds)
    IN  /\ RIsInt(ret.minutes)
        /\ RLe(RSub(ret.minutes, raw.z1), <<1, 2>>)
        /\ RLe(RSub(raw.z1, ret.minutes), <<1, 2>>)
        /\ ret.fuelGal = raw.z2

C10_Witness ==
  /\ ClimbAnswered
  /\ ret.tag = "ok"
  /\ call.isaTempDeviation = R(5)
  /\ call.altHundreds = R(35)
  /\ ~RIsInt(bicubicInterpolate(climbGrid, R(5), R(35)).z1)
  /\ ~RIsInt(RMul(ret.fuelGal, R(10)))

(* ------------------------------------------------------------------ *)
(* Properties of the clamping lookups                                  *)
(* ------------------------------------------------------------------ *)

LookupDone == call.op = "lookup" /\ ret.tag # "pending"
Interp1Done == call.op = "interp1" /\ ret.tag # "pending"
CallGrid == GridOf(call.grid)

\* the 1-based positions of v on an axis, empty when v is no axis value
AxisPos(arr, v) == {k \in 1 .. Len(arr) : arr[k] = v}

\* C11: lookup(pa_i, isa_j, grid) returns exactly table[i][j] for every pair
\* of grid indices: first, last and interior on both axes.
C11_LookupExactAtGridPoints ==
  LookupDone =>
    \A i \in AxisPos(CallGrid.pa, call.paFt),
       j \in AxisPos(CallGrid.isa, call.isaDevC) :
      ret = [tag |-> "ok", val |-> CallGrid.table[i][j]]

\* a lookup at a grid point interior on both axes has been answered
C11_Witness ==
  /\ LookupDone
  /\ \E i \in AxisPos(CallGrid.pa, call.paFt),
        j \in AxisPos(CallGrid.isa, call.isaDevC) :
       /\ 1 < i /\ i < Len(CallGrid.pa)
       /\ 1 < j /\ j < Len(CallGrid.isa)
       /\ CallGrid.table[i][j] # CallGrid.table[i - 1][j - 1]

\* the axis value nearest to v: the first below the axis, the last above it
ClampTo(arr, v) ==
  IF RLt(v, arr[1]) THEN arr[1]
  ELSE IF RGt(v, arr[Len(arr)]) THEN arr[Len(arr)]
  ELSE v

PaOutside ==
  RLt(call.paFt, CallGrid.pa[1]) \/ RGt(call.paFt, CallGrid.pa[Len(CallGrid.pa)])
IsaOutside ==
  \/ RLt(call.isaDevC, CallGrid.isa[1])
  \/ RGt(call.isaDevC, CallGrid.isa[Len(CallGrid.isa)])

\* C12: lookup clamps each axis independently: with pa below (above) the
\* axis the result is that of the lookup at the minimum (maximum) pa for the
\* same isa, and likewise for isa with pa fixed.
C12_LookupClampsEachAxis ==
  LookupDone =>
    /\ ret.tag = "ok"
    /\ PaOutside =>
         ret = lookup(ClampTo(CallGrid.pa, call.paFt), call.isaDevC, CallGrid)
    /\ IsaOutside =>
         ret = lookup(call.paFt, ClampTo(CallGrid.isa, call.isaDevC), CallGrid)

\* a lookup below the pa axis and above the isa axis has been answered
C12_Witness ==
  /\ LookupDone
  /\ RLt(call.paFt, CallGrid.pa[1])
  /\ RGt(call.isaDevC, CallGrid.isa[Len(CallGrid.isa)])

\* C13: lookup and interp1 return a value for every query, inside or outside
\* the axis range, over strictly increasing axes: neither 'should never get
\* here' nor 'interp1: value not bracketed' is thrown.
C13_ClampingLookupsTotal ==
  (LookupDone \/ Interp1Done) => ret.tag = "ok"

\* both kinds of query have been answered outside the axis range
C13_Witness ==
  \/ LookupDone /\ PaOutside /\ IsaOutside
  \/ Interp1Done /\ Len(call.xs) > 1 /\ RGt(call.v, call.xs[Len(call.xs)])

\* C14: interp1 returns ys[0] for v <= xs[0], ys[last] for v >= xs[last], and
\* otherwise ys[i] + (v - xs[i]) / (xs[i+1] - xs[i]) * (ys[i+1] - ys[i]) for
\* the first i with xs[i] <= v <= xs[i+1].
C14_Interp1Piecewise ==
  Interp1Done =>
    LET xs == call.xs
        ys == call.ys
        v == call.v
        n == Len(xs)
        Brackets == {i \in 1 .. n - 1 : RLe(xs[i], v) /\ RLe(v, xs[i + 1])}
    IN  /\ ret.tag = "ok"
        /\ RLe(v, xs[1]) => ret.val = ys[1]
        /\ (~RLe(v, xs[1]) /\ RGe(v, xs[n])) => ret.val = ys[n]
        /\ (~RLe(v, xs[1]) /\ ~RGe(v, xs[n])) =>
             \E i \in Brackets :
               /\ \A k \in Brackets : i <= k
               /\ ret.val =
                    RAdd(ys[i],
                         RMul(RDiv(RSub(v, xs[i]), RSub(xs[i + 1], xs[i])),
                              RSub(ys[i + 1], ys[i])))

\* an interp1 strictly inside a segment whose ys differ has been answered
C14_Witness ==
  /\ Interp1Done
  /\ \E i \in 1 .. Len(call.xs) - 1 :
       /\ RLt(call.xs[i], call.v) /\ RLt(call.v, call.xs[i + 1])
       /\ call.ys[i] # call.ys[i + 1]

(* ------------------------------------------------------------------ *)
(* Properties of the cruise lookup at the table's edges                *)
(* ------------------------------------------------------------------ *)

CruiseAnswered == call.op = "getWarrior3Cruise" /\ ret.tag # "pending"
InRowAnswered == call.op = "interpolateInRow" /\ ret.tag # "pending"
FirstRow == cruiseRows[1]
LastRow == cruiseRows[Len(cruiseRows)]
AtOrAboveTop == RGe(call.paFt, LastRow.pa)
AtOrBelowBottom == RLe(call.paFt, FirstRow.pa)

\* C15: for every paFt at or above the topmost row's altitude (10000 ft, a
\* row with isaLo = isaHi) the tas returned is that row's tasLo, 112, for
\* every ISA deviation asked for.
C15_TopRowTasIsTasLo ==
  (CruiseAnswered /\ AtOrAboveTop) =>
    /\ ret.tag = "ok"
    /\ ret.tas = LastRow.tasLo
    /\ ret.tas = R(112)

C15_Witness ==
  /\ CruiseAnswered /\ AtOrAboveTop
  /\ LastRow.pa = R(10000)
  /\ LastRow.isa[1] = LastRow.isa[Len(LastRow.isa)]
  /\ RGt(call.paFt, LastRow.pa)
  /\ RGt(call.isaDevC, LastRow.isa[1])

\* C16: for paFt >= 10000 (the row with a single ISA entry) the rpm returned
\* is that entry's rpm, 2580, for every ISA deviation asked for: below, at
\* or above the entry's ISA value.
C16_TopRowRpmIsEntry ==
  (CruiseAnswered /\ AtOrAboveTop) =>
    /\ ret.tag = "ok"
    /\ ret.rpm = LastRow.rpm[1]
    /\ ret.rpm = R(2580)

C16_Witness ==
  /\ CruiseAnswered /\ AtOrAboveTop
  /\ Len(LastRow.isa) = 1
  /\ RLt(call.isaDevC, LastRow.isa[1])
  /\ ret.tag = "ok"

CallRow == cruiseRows[call.row]
RowIsaLo == CallRow.isa[1]
RowIsaHi == CallRow.isa[Len(CallRow.isa)]

\* the TAS line of the row continued to isaDevC with an unclamped fraction
RowTasLine ==
  RAdd(CallRow.tasLo,
       RMul(RDiv(RSub(call.isaDevC, RowIsaLo), RSub(RowIsaHi, RowIsaLo)),
            RSub(CallRow.tasHi, CallRow.tasLo)))

\* C17: in a row with isaLo < isaHi and a query ISA outside [isaLo, isaHi],
\* the in-row rpm is the rpm at the nearer endpoint, while the in-row tas
\* continues the tasLo..tasHi line with an unclamped fraction, so that it
\* lies outside [tasLo, tasHi] when tasLo < tasHi.
C17_InRowRpmClampedTasLinear ==
  (InRowAnswered /\ RLt(RowIsaLo, RowIsaHi)) =>
    /\ ret.tag = "ok"
    /\ RLt(call.isaDevC, RowIsaLo) =>
         /\ ret.rpm = CallRow.rpm[1]
         /\ ret.tas = RowTasLine
         /\ RLt(CallRow.tasLo, CallRow.tasHi) => RLt(ret.tas, CallRow.tasLo)
    /\ RGt(call.isaDevC, RowIsaHi) =>
         /\ ret.rpm = CallRow.rpm[Len(CallRow.rpm)]
         /\ ret.tas = RowTasLine
         /\ RLt(CallRow.tasLo, CallRow.tasHi) => RGt(ret.tas, CallRow.tasHi)

C17_Witness ==
  /\ InRowAnswered
  /\ RLt(RowIsaLo, RowIsaHi)
  /\ RGt(call.isaDevC, RowIsaHi)
  /\ ret.tag = "ok"
  /\ RGt(ret.tas, CallRow.tasHi)
  /\ ret.rpm = CallRow.rpm[Len(CallRow.rpm)]

\* C18: for paFt at or below the first row's altitude the result is the one
\* at the first row's altitude, and for paFt at or above the last row's
\* altitude the one at the last row's altitude; it is that single row's
\* in-row result, with no blending.
C18_EdgeRowsClampAltitude ==
  CruiseAnswered =>
    /\ AtOrBelowBottom =>
         /\ ret = getWarrior3Cruise(FirstRow.pa, call.isaDevC)
         /\ ret = interpolateInRow(FirstRow, call.isaDevC)
    /\ AtOrAboveTop =>
         /\ ret = getWarrior3Cruise(LastRow.pa, call.isaDevC)
         /\ ret = interpolateInRow(LastRow, call.isaDevC)

C18_Witness ==
  /\ CruiseAnswered
  /\ RLt(call.paFt, FirstRow.pa)
  /\ ret.tag = "ok"
  /\ ret # BlendRows(call.paFt, call.isaDevC, cruiseRows)

(* ------------------------------------------------------------------ *)
(* Properties of the climb calculators                                 *)
(* ------------------------------------------------------------------ *)

\* C19: in every reachable form state of the climb calculators (any sequence
\* of altitude and ISA edits and of +/- button presses) render does not
\* throw: each lookup either succeeds or has its error caught and replaced
\* by an unavailable value.
C19_RenderNeverThrows ==
  call.op = "render" => ret.tag = "ok"

(* ------------------------------------------------------------------ *)
(* Properties of the magnetic variation                                *)
(* ------------------------------------------------------------------ *)

SafeAnswered == call.op = "getMagVarSafe" /\ ret.tag # "pending"

\* C20: getMagVarSafe returns 0 whenever a coordinate is not a finite number
\* (NaN, Infinity or -Infinity), returns the value of getMagVar for finite
\* coordinates, and throws for no input.
C20_MagVarSafe ==
  SafeAnswered =>
    /\ ret.tag = "ok"
    /\ (call.lat \in NonFinite \/ call.lon \in NonFinite) =>
         ret.val = Fin(R(0))
    /\ (call.lat.k = "fin" /\ call.lon.k = "fin") =>
         ret = getMagVar(call.lat, call.lon)

(* ------------------------------------------------------------------ *)
(* Properties of the bracket helper at grid lines                      *)
(* ------------------------------------------------------------------ *)

\* the pair idx returned for each axis of the answered lookup
PaBracket == idx(CallGrid.pa, call.paFt)
IsaBracket == idx(CallGrid.isa, call.isaDevC)

\* C24: when the query equals a grid-line coordinate of an axis (interior
\* grid lines included) idx returns equal indices for that axis, so a query
\* on an exact grid point takes the first fast exit.
C24_GridLineEqualIndices ==
  LookupDone =>
    /\ AxisPos(CallGrid.pa, call.paFt) # {} => PaBracket.lo = PaBracket.hi
    /\ AxisPos(CallGrid.isa, call.isaDevC) # {} =>
         IsaBracket.lo = IsaBracket.hi

(* ------------------------------------------------------------------ *)
(* Properties of the two spline classes and of the coefficients        *)
(* ------------------------------------------------------------------ *)

OtherClass == IF call.cls = "binary" THEN "linear" ELSE "binary"

\* what the other CubicSpline class answers to the evaluation made
OtherEval == SplineEval(NewCubicSpline(OtherClass, call.xs, call.ys), call.x)

\* the 0-based segment i with xs[i] <= x < xs[i+1], the last one for xs[last]
SegmentOf(xs, x) ==
  IF x = xs[Len(xs)] THEN Len(xs) - 2
  ELSE CHOOSE i \in 0 .. Len(xs) - 2 : RLe(xs[i + 1], x) /\ RLt(x, xs[i + 2])

\* C25: the binary-search and the linear-scan CubicSpline are
\* interchangeable: for every strictly increasing knot sequence and every x
\* either both raise a range error, or both select the same segment (the i
\* with xs[i] <= x < xs[i+1], the last one for x = xs[last]) and return the
\* same value.
C25_ClassesInterchangeable ==
  EvalDone =>
    \/ ret.tag = "RangeError" /\ OtherEval.tag = "RangeError"
    \/ /\ ret.tag = "ok" /\ OtherEval.tag = "ok"
       /\ ret.seg = OtherEval.seg
       /\ ret.seg = SegmentOf(call.xs, call.x)
       /\ ret.val = OtherEval.val

\* C26: the spline has no jump at an interior knot: for every interior knot
\* x_i, segment i-1 evaluated at dx = x_i - x_(i-1) equals y_i, the value
\* segment i takes at dx = 0, for every valid knot sequence.
C26_ContinuousAtInteriorKnots ==
  spline # NoSpline =>
    \A i \in 1 .. spline.nsegs - 1 :
      /\ SegValue(spline.segs[i - 1], call.xs[i + 1]) = call.ys[i + 1]
      /\ SegValue(spline.segs[i], call.xs[i + 1]) = call.ys[i + 1]

\* a spline of four segments with a curved segment before an interior knot
C26_Witness ==
  /\ spline # NoSpline
  /\ spline.nsegs = 4
  /\ \E i \in 1 .. spline.nsegs - 1 :
       /\ spline.segs[i - 1].d # R(0)
       /\ spline.segs[i - 1].c # R(0)
       /\ call.ys[i] # call.ys[i + 1]

(* ------------------------------------------------------------------ *)
(* Properties of the cells gathered by the bicubic climb interpolation *)
(* ------------------------------------------------------------------ *)

ClimbAccepted == call.op = "calculateClimb" /\ ret.tag = "ok"
CallXLoc == locate(call.isaTempDeviation, [r \in 1 .. Len(climbGrid) |-> climbGrid[r][1].x])
CallYLoc == locate(call.altHundreds, [k \in 1 .. Len(climbGrid[1]) |-> climbGrid[1][k].y])

\* the rows of the climb table used for the accepted query, 0-based
RowsUsed ==
  {Max2(0, Min2(CallXLoc.index + i, Len(climbGrid) - 1)) : i \in -1 .. 2}

\* the cells (or Undefined) gathered on the rows used
GatheredCells ==
  UNION {{RowCells(climbGrid[r + 1], CallYLoc.index, f)[k] : k \in 1 .. 4} :
           r \in RowsUsed, f \in {"z1", "z2"}}

\* C27: for every query calculateClimb accepts, the altitude column index
\* located on the first ISA row is a valid index of every ISA row used, and
\* none of the cells gathered for the 4x4 neighbourhood is missing.
C27_NoMissingCell ==
  ClimbAccepted =>
    /\ \A r \in RowsUsed : CallYLoc.index < Len(climbGrid[r + 1])
    /\ Undefined \notin GatheredCells

(* ------------------------------------------------------------------ *)
(* Properties of the cruise lookup at an interior row altitude         *)
(* ------------------------------------------------------------------ *)

InteriorRows == 2 .. Len(cruiseRows) - 1
OwnRow(k) == interpolateInRow(cruiseRows[k], call.isaDevC)

\* C28: for paFt exactly at the altitude of an interior cruise row k,
\* cruiseLookup returns row k's own in-row rpm rounded to the nearest 10 and
\* its own in-row tas rounded to an integer; the neighbouring row of the
\* bracket has weight 0.
C28_InteriorRowOwnValues ==
  CruiseAnswered =>
    \A k \in InteriorRows :
      call.paFt = cruiseRows[k].pa =>
        /\ ret.tag = "ok"
        /\ ret.rpm = R(MathRound(RDiv(OwnRow(k).rpm, R(10))) * 10)
        /\ ret.tas = R(MathRound(OwnRow(k).tas))

C28_Witness ==
  /\ CruiseAnswered
  /\ ret.tag = "ok"
  /\ \E k \in InteriorRows :
       /\ call.paFt = cruiseRows[k].pa
       /\ ~RIsInt(RDiv(OwnRow(k).rpm, R(10)))
       /\ ~RIsInt(OwnRow(k).tas)
       /\ OwnRow(k) # interpolateInRow(cruiseRows[k - 1], call.isaDevC)

(* ------------------------------------------------------------------ *)
(* Properties of computeTopOfClimb                                     *)
(* ------------------------------------------------------------------ *)

TocRunning == call.op = "computeTopOfClimb" /\ ret.tag \in {"loop", "ok"}

\* the altitudes of the waypoints before the 0-based index i that carry one
EarlierAlts(i) ==
  {call.waypoints[j].altitudeFromHereFt[1] :
     j \in {k \in 1 .. i : call.waypoints[k].altitudeFromHereFt # Null}}

SetMax(S) == CHOOSE m \in S : \A s \in S : s <= m

\* C30: computeTopOfClimb yields entries in strictly increasing index order
\* with strictly increasing altFt; the running altitude starts at 0 and never
\* decreases (it is the greatest of 0 and the altitudes seen so far), and a
\* waypoint has an entry only if its altitude exceeds the altitude of every
\* earlier waypoint and the climb rate at the running altitude is positive.
C30_TopOfClimbIncreasing ==
  TocRunning =>
    /\ ret.currentAlt = SetMax({0} \cup EarlierAlts(ret.i))
    /\ \A j \in 1 .. Len(ret.result) - 1 :
         /\ ret.result[j].index < ret.result[j + 1].index
         /\ ret.result[j].altFt < ret.result[j + 1].altFt
    /\ \A j \in 1 .. Len(ret.result) :
         LET e == ret.result[j]
         IN  /\ e.index < ret.i
             /\ e.altFt = call.waypoints[e.index + 1].altitudeFromHereFt[1]
             /\ \A a \in EarlierAlts(e.index) : e.altFt > a
             /\ climbRateFpm(call.aircraft, call.isaDev,
                             SetMax({0} \cup EarlierAlts(e.index)), 1000) > 0

\* a finished run in which a lower waypoint follows a higher one, a later
\* climb is entered and a climb from the zero-climb altitude is not
C30_Witness ==
  /\ call.op = "computeTopOfClimb"
  /\ ret.tag = "ok"
  /\ Len(call.waypoints) = 3
  /\ Len(ret.result) = 1
  /\ call.waypoints[1].altitudeFromHereFt # Null
  /\ call.waypoints[2].altitudeFromHereFt # Null
  /\ call.waypoints[3].altitudeFromHereFt # Null
  /\ call.waypoints[2].altitudeFromHereFt[1] < call.waypoints[1].altitudeFromHereFt[1]
  /\ call.waypoints[3].altitudeFromHereFt[1] > call.waypoints[1].altitudeFromHereFt[1]
  /\ ret.currentAlt = call.waypoints[3].altitudeFromHereFt[1]
  /\ ret.result[1].index = 0

(* ------------------------------------------------------------------ *)
(* Properties of the leg metrics                                       *)
(* ------------------------------------------------------------------ *)

LegDone == call.op = "computeLegMetrics" /\ ret.tag # "pending"
InTrackRange(a) == a.k = "fin" /\ RGe(a.v, R(0)) /\ RLt(a.v, R(360))

\* C21: for every pair of waypoints computeLegMetrics returns a trueTrackDeg
\* and a magTrackDeg that are, after the rounding to whole degrees, at least
\* 0 and strictly less than 360.
C21_TracksBelow360 ==
  LegDone =>
    /\ ret.tag = "ok"
    /\ InTrackRange(ret.trueTrackDeg)
    /\ InTrackRange(ret.magTrackDeg)

(* ------------------------------------------------------------------ *)
(* Properties of the scenario matrix                                   *)
(* ------------------------------------------------------------------ *)

ScenariosDone == call.op = "generateScenarios" /\ ret.tag = "ok"

\* rows a variant contributes: 2 with a refuel-optional airport, else 1
VariantRows(variant) ==
  IF \E i \in 1 .. Len(variant.waypoints) :
       variant.waypoints[i].isAirport /\ variant.waypoints[i].refuelOptional
    THEN 2 ELSE 1

RECURSIVE StageRows(_, _)
StageRows(variants, v) ==
  IF v > Len(variants) THEN 0
  ELSE VariantRows(variants[v]) + StageRows(variants, v + 1)

\* N: the product over the stages from s on of the stage's rows
RECURSIVE PlanRows(_, _)
PlanRows(stages, s) ==
  IF s > Len(stages) THEN 1
  ELSE StageRows(stages[s].variants, 1) * PlanRows(stages, s + 1)

\* the choices of one variant per stage
VariantChoices(stages) ==
  {c \in [1 .. Len(stages) -> 1 .. 2] :
     \A s \in 1 .. Len(stages) : c[s] <= Len(stages[s].variants)}

ChoiceAppears(c, scenarios) ==
  \E k \in 1 .. Len(scenarios) :
    \A s \in DOMAIN c :
      /\ scenarios[k].stageVariants[s].stageId = s
      /\ scenarios[k].stageVariants[s].variantId = c[s]

RowCountIsCappedN ==
  Len(ret.scenarios) = Min2(1024, PlanRows(call.stages, 1))

RECURSIVE FuelAfterStage(_, _, _)
FuelAfterStage(stages, combination, n) ==
  LET item == combination[n]
      before == IF n = 1 \/ item.refuel THEN 181
                ELSE FuelAfterStage(stages, combination, n - 1)
  IN  before - stages[item.stageId].variants[item.variantId].fuel

C29_ValidKeepsReserve ==
  ScenariosDone =>
    \A k \in 1 .. Len(ret.scenarios) :
      ret.scenarios[k].isValid =>
        \A n \in 1 .. Len(ret.scenarios[k].stageVariants) :
          FuelAfterStage(call.stages, ret.scenarios[k].stageVariants, n) >= 30

(* ------------------------------------------------------------------ *)
(* Properties of the flight planning page                              *)
(* ------------------------------------------------------------------ *)

\* C23: after any sequence of plan changes (a stage added, a waypoint
\* updated, inserted or deleted, refuelOptional toggled) the scenario list in
\* the state is the list generateScenarios yields for the current plan.
C23_ScenariosFollowPlan ==
  (call.op = "page" /\ call.changes > 0 /\ call.timers = <<>>) =>
    ret.scenarios = generateScenarios(call.stages)
====
